---- MODULE Spec2Model ----
(***************************************************************************)
(* Trading Decision & Guardrail Engine of DayTradingPaperBot:              *)
(* RiskPolicyAgent (guardrail approval), ExecutionPaperAgent (paper fills, *)
(* position book, stop-loss/target monitoring), the daily risk ledger and  *)
(* the TradingScheduler cycle.                                             *)
(*                                                                         *)
(* Money and prices are Python floats in the program; here they are exact  *)
(* rationals [n, d] in lowest terms, so an arithmetic identity is checked  *)
(* in exact arithmetic.  Confidence scores are hundredths (0.70 is 70).    *)
(* Time is in minutes since midnight of day 0.                             *)
(***************************************************************************)
EXTENDS Integers, Sequences, FiniteSets, TLC

VARIABLES
    ledger,               \* daily_state row of today's date, or NoLedger
    positions,            \* positions table: symbol -> row or NoPosition
    orders,               \* paper_orders table, in insertion order
    recent_order_hashes,  \* ExecutionPaperAgent.recent_order_hashes
    now,                  \* datetime.now(), minutes
    intent,               \* the proposal of the last approve() call
    approval,             \* what the last approve() call returned
    result,               \* what the last execute() call returned
    intent_status,        \* trade_intents.status of the proposal saved last
    evaluation,           \* StrategyBrainAgent.evaluate: the snapshot and its scores
    stock_data,           \* StrategyEngine.run_ensemble_analysis: its argument
    ensemble,             \* the EnsembleDecision it returned
    sched,                \* TradingScheduler._run_trading_cycle: locals and position
    loop                  \* TradingScheduler.start: self.running and position

\* the variables of the market analysis, which the trading operations
\* leave alone
analysis_vars == <<evaluation, stock_data, ensemble>>

vars == <<ledger, positions, orders, recent_order_hashes, now, intent,
          approval, result, intent_status, evaluation, stock_data, ensemble,
          sched, loop>>

-----------------------------------------------------------------------------
(* Bounds of the model *)

MaxQty == 3            \* largest quantity a proposal requests
MaxOrders == 2         \* rows of paper_orders a behaviour may write
MaxDay == 1            \* last calendar day (day 0 is the first)
MaxPending == 1        \* pending HITL requests counted in one ledger row

(* Program constants: the defaults of app/core/config.py *)

MAX_DAILY_LOSS == 300
MAX_TRADES_PER_DAY == 5
PER_TRADE_MAX_LOSS_PERCENT == 50
REQUIRE_HITL_FIRST_N_TRADES == 2
HITL_CONFIDENCE_THRESHOLD == 70
STRATEGY_SWITCH_COOLDOWN_MINUTES == 20
STRATEGY_SWITCH_MIN_IMPROVEMENT == 15
PAPER_BROKERAGE_PER_ORDER == 20
SlippageDen == 2000    \* PAPER_SLIPPAGE_PERCENT / 100 = 0.05 / 100 = 1 / 2000
PerTradeAbsoluteCap == 100
SwitchBaseConfidence == 60
DedupWindowSeconds == 300
DedupPruneSeconds == 600
DayMinutes == 24 * 60
DaySeconds == 24 * 60 * 60

None == "None"

-----------------------------------------------------------------------------
(* Exact rational arithmetic for the program's float values *)

RECURSIVE GCD(_, _)
GCD(a, b) == IF b = 0 THEN a ELSE GCD(b, a % b)

IAbs(x) == IF x < 0 THEN -x ELSE x

Rat(n, d) ==
    LET s == IF d < 0 THEN -1 ELSE 1
        g == GCD(IAbs(n), IAbs(d))
    IN  [n |-> (s * n) \div g, d |-> (s * d) \div g]

R(i) == [n |-> i, d |-> 1]

RAdd(a, b) == Rat(a.n * b.d + b.n * a.d, a.d * b.d)
RSub(a, b) == Rat(a.n * b.d - b.n * a.d, a.d * b.d)
RMul(a, b) == Rat(a.n * b.n, a.d * b.d)
RDiv(a, b) == Rat(a.n * b.d, a.d * b.n)
RNeg(a) == [n |-> -a.n, d |-> a.d]
RAbs(a) == [n |-> IAbs(a.n), d |-> a.d]
RLt(a, b) == a.n * b.d < b.n * a.d
RLe(a, b) == a.n * b.d <= b.n * a.d
RMin(a, b) == IF RLe(a, b) THEN a ELSE b
RIsZero(a) == a.n = 0
\* Python int(x): truncation toward zero
RInt(a) == IF a.n >= 0 THEN a.n \div a.d ELSE -((-a.n) \div a.d)

-----------------------------------------------------------------------------
(* Data model (app/core/schemas.py, as used by the agents and storage.py) *)

NoneR == [n |-> 0, d |-> 0]     \* None where a float is expected
NoneI == -1                     \* None where a non-negative int is expected

\* Python truthiness of an Optional[float]: None and 0.0 are falsy
Truthy(x) == x # NoneR /\ x.n # 0

Strategies == {"momentum_breakout", "mean_reversion", "volatility_expansion"}
AllowedSymbols == {"HINDCOPPER", "MCX"}
Symbols == AllowedSymbols \cup {"RELIANCE"}
Sides == {"BUY", "SELL"}
OrderTypes == {"MARKET", "LIMIT", "STOP"}

NoLedger == [exists |-> FALSE]
NoPosition == [exists |-> FALSE]
NoIntent == [exists |-> FALSE]
NoDecision == [returned |-> FALSE, raised |-> FALSE]
NoEvaluation == [exists |-> FALSE]
NoStockData == [exists |-> FALSE]
NoEnsemble == [exists |-> FALSE]
TypeErrorRaised == [returned |-> FALSE, raised |-> TRUE]

\* DailyState(date, loss_budget_remaining, max_daily_loss, max_trades): the
\* fields the caller does not pass take the defaults of the schema
DailyState_new(budget, max_loss, trade_limit) ==
    [exists |-> TRUE,
     realized_pnl |-> R(0), unrealized_pnl |-> R(0), total_pnl |-> R(0),
     loss_budget_remaining |-> budget,
     max_daily_loss |-> max_loss,
     safe_mode |-> FALSE,
     active_strategy |-> None,
     strategy_switched_at |-> NoneI,
     trades_count |-> 0,
     max_trades |-> trade_limit,
     hitl_approvals_pending |-> 0]

\* DailyState(date=today, loss_budget_remaining=MAX_DAILY_LOSS,
\*            max_daily_loss=MAX_DAILY_LOSS, max_trades=MAX_TRADES_PER_DAY)
NewDailyState ==
    DailyState_new(R(MAX_DAILY_LOSS), R(MAX_DAILY_LOSS), MAX_TRADES_PER_DAY)

get_or_create_daily_state(l) == IF l.exists THEN l ELSE NewDailyState

DailyState_update_pnl_unlatched(ds, realized, unrealized) ==
    LET r == IF realized = NoneR THEN ds.realized_pnl
             ELSE RAdd(ds.realized_pnl, realized)
        u == IF unrealized = NoneR THEN ds.unrealized_pnl ELSE unrealized
        b == IF realized = NoneR THEN ds.loss_budget_remaining
             ELSE RAdd(ds.loss_budget_remaining, realized)
    IN  [ds EXCEPT !.realized_pnl = r,
                   !.unrealized_pnl = u,
                   !.total_pnl = RAdd(r, u),
                   !.loss_budget_remaining = b]

\* DailyState.update_pnl(realized=..., unrealized=...): an argument that is
\* not passed is NoneR here.  The realized amount is folded into the
\* realized total and into the remaining budget, the unrealized amount
\* replaces the stored one, total = realized + unrealized, and a budget
\* that goes negative flips the safe-mode latch, which is never cleared.
DailyState_update_pnl(ds, realized, unrealized) ==
    LET r == IF realized = NoneR THEN ds.realized_pnl
             ELSE RAdd(ds.realized_pnl, realized)
        u == IF unrealized = NoneR THEN ds.unrealized_pnl ELSE unrealized
        b == IF realized = NoneR THEN ds.loss_budget_remaining
             ELSE RAdd(ds.loss_budget_remaining, realized)
    IN  [ds EXCEPT !.realized_pnl = r,
                   !.unrealized_pnl = u,
                   !.total_pnl = RAdd(r, u),
                   !.loss_budget_remaining = b,
                   !.safe_mode = ds.safe_mode \/ RLt(b, R(0))]

\* Position.update_pnl(current_price): refresh the mark price and recompute
\* the unrealized PnL of the signed quantity
Position_update_pnl(p, current_price) ==
    [p EXCEPT !.current_price = current_price,
              !.unrealized_pnl =
                  RMul(RSub(current_price, p.avg_price), R(p.quantity))]

\* storage.get_all_positions(): SELECT * FROM positions WHERE quantity != 0
get_all_positions(book) ==
    {s \in DOMAIN book : book[s].exists /\ book[s].quantity # 0}

RECURSIVE SumUnrealized(_, _)
SumUnrealized(book, S) ==
    IF S = {} THEN R(0)
    ELSE LET s == CHOOSE x \in S : TRUE
         IN  RAdd(book[s].unrealized_pnl, SumUnrealized(book, S \ {s}))

-----------------------------------------------------------------------------
(* RiskPolicyAgent (app/agents/risk_policy.py) *)

\* RiskApproval(...) as constructed at the start of approve()
NewApproval(ds) ==
    [returned |-> TRUE, raised |-> FALSE,
     approved |-> TRUE,
     adjusted_quantity |-> NoneI,
     rejection_reason |-> None,
     guardrail_flags |-> {},
     max_risk_per_trade |-> NoneR,
     safe_mode_active |-> ds.safe_mode,
     hitl_required |-> FALSE,
     hitl_reason |-> <<>>,
     remaining_loss_budget |-> ds.loss_budget_remaining,
     trades_today |-> ds.trades_count,
     current_strategy |-> ds.active_strategy]

\* approval.approved = False; rejection_reason = ...; guardrail_flags[flag] = True
Reject(ap, reason, flag) ==
    [ap EXCEPT !.approved = FALSE,
               !.rejection_reason = reason,
               !.guardrail_flags = @ \cup {flag}]

Pass(ap) == [ok |-> TRUE, ap |-> ap]
Fail(ap, reason, flag) == [ok |-> FALSE, ap |-> Reject(ap, reason, flag)]

\* _update_unrealized_pnl: the ledger that is saved before the checks run
update_unrealized_pnl(ds, book) ==
    DailyState_update_pnl(ds, NoneR, SumUnrealized(book, get_all_positions(book)))

check_safe_mode(ds, ap) ==
    IF ds.safe_mode
    THEN Fail(ap, "SAFE_MODE active - max daily loss reached", "safe_mode")
    ELSE Pass(ap)

\* float >= None raises TypeError: a stop-loss with no entry price
check_stop_loss_raises(i) ==
    i.stop_loss_price # NoneR /\ i.entry_price = NoneR

check_stop_loss_equal_allowed(i, ap) ==
    IF i.stop_loss_price = NoneR
    THEN Fail(ap, "Mandatory stop-loss missing", "missing_stop_loss")
    ELSE IF i.side = "BUY" /\ RLt(i.entry_price, i.stop_loss_price)
    THEN Fail(ap, "Stop-loss for BUY must be below entry price", "invalid_stop_loss")
    ELSE IF i.side = "SELL" /\ RLt(i.stop_loss_price, i.entry_price)
    THEN Fail(ap, "Stop-loss for SELL must be above entry price", "invalid_stop_loss")
    ELSE Pass(ap)

\* _check_stop_loss where it returns
check_stop_loss(i, ap) ==
    IF i.stop_loss_price = NoneR
    THEN Fail(ap, "Mandatory stop-loss missing", "missing_stop_loss")
    ELSE IF i.side = "BUY" /\ RLe(i.entry_price, i.stop_loss_price)
    THEN Fail(ap, "Stop-loss for BUY must be below entry price", "invalid_stop_loss")
    ELSE IF i.side = "SELL" /\ RLe(i.stop_loss_price, i.entry_price)
    THEN Fail(ap, "Stop-loss for SELL must be above entry price", "invalid_stop_loss")
    ELSE Pass(ap)

check_daily_loss_budget_ledger_recomputed(ds) ==
    [ds EXCEPT !.safe_mode = RLe(ds.loss_budget_remaining, R(0))]

\* the ledger as this check leaves it (safe mode triggered and saved)
check_daily_loss_budget_ledger(ds) ==
    IF RLe(ds.loss_budget_remaining, R(0)) /\ ~ds.safe_mode
    THEN [ds EXCEPT !.safe_mode = TRUE]
    ELSE ds

check_daily_loss_budget(i, ds, ap) ==
    IF RLe(ds.loss_budget_remaining, R(0))
    THEN Fail(ap, "Daily loss budget exhausted", "loss_budget_exhausted")
    ELSE IF RLt(ds.loss_budget_remaining, i.expected_risk_rupees)
    THEN Fail(ap, "Trade risk exceeds remaining budget", "risk_exceeds_budget")
    ELSE Pass(ap)

max_risk_per_trade_uncapped(ds) ==
    RDiv(RMul(ds.loss_budget_remaining, R(PER_TRADE_MAX_LOSS_PERCENT)), R(100))

\* the per-trade cap of _check_per_trade_risk
max_risk_per_trade(ds) ==
    RMin(RDiv(RMul(ds.loss_budget_remaining, R(PER_TRADE_MAX_LOSS_PERCENT)), R(100)),
         R(PerTradeAbsoluteCap))

check_per_trade_risk(i, ds, ap) ==
    IF RLt(max_risk_per_trade(ds), i.expected_risk_rupees)
    THEN Fail(ap, "Per-trade risk exceeds limit", "per_trade_risk_exceeded")
    ELSE Pass([ap EXCEPT !.guardrail_flags = @ \cup {"max_risk_per_trade"},
                         !.max_risk_per_trade = max_risk_per_trade(ds)])

check_max_trades(ds, ap) ==
    IF ds.trades_count >= ds.max_trades
    THEN Fail(ap, "Max trades per day reached", "max_trades_reached")
    ELSE Pass(ap)

check_strategy_switch(i, ds, ap, t) ==
    IF ds.active_strategy = None THEN Pass(ap)
    ELSE IF ds.active_strategy = i.strategy_id THEN Pass(ap)
    ELSE IF ds.strategy_switched_at # NoneI
            /\ t - ds.strategy_switched_at < STRATEGY_SWITCH_COOLDOWN_MINUTES
    THEN Fail(ap, "Strategy switch cooldown active", "strategy_switch_cooldown")
    ELSE IF i.confidence_score < SwitchBaseConfidence + STRATEGY_SWITCH_MIN_IMPROVEMENT
    THEN Fail(ap, "Strategy switch requires confidence", "strategy_switch_confidence_low")
    ELSE Pass([ap EXCEPT !.hitl_required = TRUE,
                         !.hitl_reason = <<"Strategy switch">>,
                         !.guardrail_flags = @ \cup {"strategy_switch"}])

check_symbol_validity(i, ap) ==
    IF i.symbol \notin AllowedSymbols
    THEN Fail(ap, "Symbol not in allowed trading list", "invalid_symbol")
    ELSE Pass(ap)

check_liquidity(i, ap) == Pass(ap)

check_hitl_requirements_overwriting(i, ds, ap) ==
    LET a1 == IF ds.trades_count < REQUIRE_HITL_FIRST_N_TRADES
              THEN [ap EXCEPT !.hitl_required = TRUE,
                              !.hitl_reason = <<"First N trades require approval">>]
              ELSE ap
        a2 == IF i.confidence_score < HITL_CONFIDENCE_THRESHOLD
              THEN [a1 EXCEPT !.hitl_required = TRUE,
                              !.hitl_reason = <<"Low confidence">>]
              ELSE a1
    IN  IF a2.hitl_required
        THEN [a2 EXCEPT !.guardrail_flags = @ \cup {"hitl_required"}]
        ELSE a2

\* _check_hitl_requirements
check_hitl_requirements(i, ds, ap) ==
    LET a1 == IF ds.trades_count < REQUIRE_HITL_FIRST_N_TRADES
              THEN [ap EXCEPT !.hitl_required = TRUE,
                              !.hitl_reason = <<"First N trades require approval">>]
              ELSE ap
        a2 == IF i.confidence_score < HITL_CONFIDENCE_THRESHOLD
              THEN [a1 EXCEPT !.hitl_required = TRUE,
                              !.hitl_reason =
                                  IF a1.hitl_reason # <<>>
                                  THEN Append(a1.hitl_reason, "Low confidence")
                                  ELSE <<"Low confidence">>]
              ELSE a1
    IN  IF a2.hitl_required
        THEN [a2 EXCEPT !.guardrail_flags = @ \cup {"hitl_required"}]
        ELSE a2

\* entry_price = intent.entry_price or 0
\* abs(entry_price - stop) if entry_price else abs(stop * 0.01)
risk_per_share(i) ==
    IF Truthy(i.entry_price)
    THEN RAbs(RSub(i.entry_price, i.stop_loss_price))
    ELSE RAbs(RDiv(i.stop_loss_price, R(100)))

adjusted_quantity_of_unfloored(max_quantity) == max_quantity

\* max(1, max_quantity)
adjusted_quantity_of(max_quantity) ==
    IF max_quantity < 1 THEN 1 ELSE max_quantity

adjust_quantity(i, ds, ap) ==
    LET max_risk == IF "max_risk_per_trade" \in ap.guardrail_flags
                    THEN ap.max_risk_per_trade
                    ELSE ds.loss_budget_remaining
        rps == risk_per_share(i)
    IN  IF RLt(R(0), rps)
        THEN LET max_quantity == RInt(RDiv(max_risk, rps))
             IN  IF max_quantity < i.quantity
                 THEN [ap EXCEPT !.adjusted_quantity = adjusted_quantity_of(max_quantity),
                                 !.guardrail_flags = @ \cup {"quantity_adjusted"}]
                 ELSE ap
        ELSE ap

\* approve(intent): the ledger it leaves persisted and the decision it
\* returns; raised = TRUE when _check_stop_loss raises before any decision
approve(l, book, i, t) ==
    LET ds1 == update_unrealized_pnl(get_or_create_daily_state(l), book)
        a0 == NewApproval(ds1)
        c1 == check_safe_mode(ds1, a0)
    IN  IF check_stop_loss_raises(i)
        THEN [raised |-> TRUE, ds |-> ds1, ap |-> TypeErrorRaised]
        ELSE
        LET c2 == check_stop_loss(i, c1.ap)
            c3 == check_daily_loss_budget(i, ds1, c2.ap)
            ds2 == check_daily_loss_budget_ledger(ds1)
            c4 == check_per_trade_risk(i, ds2, c3.ap)
            c5 == check_max_trades(ds2, c4.ap)
            c6 == check_strategy_switch(i, ds2, c5.ap, t)
            c7 == check_symbol_validity(i, c6.ap)
            c8 == check_liquidity(i, c7.ap)
            all == c1.ok /\ c2.ok /\ c3.ok /\ c4.ok /\ c5.ok /\ c6.ok /\ c7.ok /\ c8.ok
        IN  IF ~all
            THEN [raised |-> FALSE, ds |-> ds2,
                  ap |-> [c8.ap EXCEPT !.approved = FALSE]]
            ELSE [raised |-> FALSE, ds |-> ds2,
                  ap |-> adjust_quantity(i, ds2,
                             check_hitl_requirements(i, ds2, c8.ap))]

\* trigger_safe_mode(reason)
trigger_safe_mode(l) == [get_or_create_daily_state(l) EXCEPT !.safe_mode = TRUE]

reset_daily_state_latch_kept == [NewDailyState EXCEPT !.safe_mode = TRUE]
\* reset_daily_state(): a fresh row for today replaces the stored one
reset_daily_state == NewDailyState

-----------------------------------------------------------------------------
(* ExecutionPaperAgent (app/agents/execution_paper.py) *)

\* utils.calculate_slippage: buys fill higher, sells fill lower
calculate_slippage(price, side) ==
    IF side = "BUY"
    THEN RMul(price, Rat(SlippageDen + 1, SlippageDen))
    ELSE RMul(price, Rat(SlippageDen - 1, SlippageDen))

\* f"{symbol}_{side}_{strategy}_{entry_price}"
intent_hash(i) == <<i.symbol, i.side, i.strategy_id, i.entry_price>>

\* (a - b).seconds of a timedelta: the seconds within the day
timedelta_seconds(a, b) == ((a - b) * 60) % DaySeconds

\* _is_duplicate: the verdict and the cache it leaves
is_duplicate(hashes, i, t) ==
    LET h == intent_hash(i)
    IN  IF h \in DOMAIN hashes /\ timedelta_seconds(t, hashes[h]) < DedupWindowSeconds
        THEN [dup |-> TRUE, hashes |-> hashes]
        ELSE LET rec == [k \in (DOMAIN hashes) \cup {h} |->
                            IF k = h THEN t ELSE hashes[k]]
                 keep == {k \in DOMAIN rec :
                            timedelta_seconds(t, rec[k]) < DedupPruneSeconds}
             IN  [dup |-> FALSE, hashes |-> [k \in keep |-> rec[k]]]

\* _simulate_fill: the PaperOrder, or raised = TRUE where the log line
\* formats fill_price = None of a limit order that stays pending
simulate_fill(i, quantity, ltp) ==
    LET filled(fp) ==
            [raised |-> FALSE,
             order |-> [symbol |-> i.symbol, side |-> i.side, quantity |-> quantity,
                        order_type |-> i.entry_type, status |-> "FILLED",
                        fill_price |-> fp,
                        brokerage |-> R(PAPER_BROKERAGE_PER_ORDER),
                        simulated_ltp |-> ltp]]
    IN  IF i.entry_type = "MARKET" THEN filled(calculate_slippage(ltp, i.side))
        ELSE IF i.entry_type = "LIMIT"
        THEN IF i.side = "BUY" /\ RLe(ltp, i.entry_price) THEN filled(RMin(ltp, i.entry_price))
             ELSE IF i.side = "SELL" /\ RLe(i.entry_price, ltp)
             THEN filled(IF RLe(ltp, i.entry_price) THEN i.entry_price ELSE ltp)
             ELSE [raised |-> TRUE]
        ELSE filled(calculate_slippage(ltp, i.side))

average_price_last_fill(total_cost, divisor, fill_price) == fill_price

\* total_cost / new_quantity if new_quantity != 0 else order.fill_price
average_price(total_cost, divisor, fill_price) ==
    IF divisor # 0 THEN RDiv(total_cost, R(divisor)) ELSE fill_price

\* _update_position, up to the save: the position object after the fill
updated_position(book, order, i) ==
    LET p == book[order.symbol]
        q == order.quantity
        fp == order.fill_price
    IN  IF ~p.exists
        THEN [exists |-> TRUE,
              quantity |-> IF order.side = "BUY" THEN q ELSE -q,
              avg_price |-> fp,
              current_price |-> fp,
              unrealized_pnl |-> R(0),
              stop_loss_price |-> i.stop_loss_price,
              target_price |-> i.target_price,
              strategy |-> i.strategy_id]
        ELSE IF order.side = "BUY"
        THEN LET new_quantity == p.quantity + q
                 total_cost == RAdd(RMul(p.avg_price, R(p.quantity)), RMul(fp, R(q)))
             IN  [p EXCEPT !.quantity = new_quantity,
                           !.avg_price =
                               IF p.quantity >= 0
                               THEN average_price(total_cost, new_quantity, fp)
                               ELSE @]
        ELSE LET new_quantity == p.quantity - q
                 total_cost == RAdd(RMul(p.avg_price, R(IAbs(p.quantity))), RMul(fp, R(q)))
             IN  [p EXCEPT !.quantity = new_quantity,
                           !.avg_price =
                               IF p.quantity <= 0
                               THEN average_price(total_cost, IAbs(new_quantity), fp)
                               ELSE @]

update_position_always_saved(book, order, i) ==
    [book EXCEPT ![order.symbol] = updated_position(book, order, i)]

\* _update_position: the positions table after a filled order; a position
\* whose quantity came to 0 is deleted, any other is saved
update_position(book, order, i) ==
    IF updated_position(book, order, i).quantity = 0
    THEN [book EXCEPT ![order.symbol] = NoPosition]
    ELSE [book EXCEPT ![order.symbol] = updated_position(book, order, i)]

update_daily_state_uncounted(l, i, t) ==
    [get_or_create_daily_state(l) EXCEPT !.active_strategy = i.strategy_id]
\* _update_daily_state: the switch timestamp is stamped only if the active
\* strategy, already overwritten with the proposal's, differs from it
update_daily_state(l, i, t) ==
    LET ds == get_or_create_daily_state(l)
        ds1 == [ds EXCEPT !.trades_count = @ + 1,
                          !.active_strategy = i.strategy_id]
    IN  IF ds1.active_strategy # i.strategy_id
        THEN [ds1 EXCEPT !.strategy_switched_at = t]
        ELSE ds1

\* The persistent state the agents work on
World(l, book, ords, hashes) ==
    [ledger |-> l, positions |-> book, orders |-> ords, hashes |-> hashes]

NoOrder == [status |-> "NONE"]
ExecuteRaised == [status |-> "RAISED"]

\* execute(): what follows the approval test, with the reference price ltp
\* that get_ltp delivers (NoneR: no price, or the fetch raised)
execute_approved(w, i, ap, ltp, t) ==
    LET d == is_duplicate(w.hashes, i, t)
        w1 == [w EXCEPT !.hashes = d.hashes]
        quantity == IF ap.adjusted_quantity # NoneI /\ ap.adjusted_quantity # 0
                    THEN ap.adjusted_quantity ELSE i.quantity
    IN  IF d.dup THEN [w |-> w, result |-> NoOrder]
        ELSE IF ltp = NoneR THEN [w |-> w1, result |-> NoOrder]
        ELSE LET f == simulate_fill(i, quantity, ltp)
             IN  IF f.raised THEN [w |-> w1, result |-> ExecuteRaised]
                 ELSE [w |-> [w1 EXCEPT
                                 !.positions = update_position(w.positions, f.order, i),
                                 !.ledger = update_daily_state(w.ledger, i, t),
                                 !.orders = Append(@, f.order)],
                       result |-> f.order]

execute_unapproved_too(w, i, ap, ltp, t) == execute_approved(w, i, ap, ltp, t)
\* execute(intent, approval): the state it leaves and what it returns
execute(w, i, ap, ltp, t) ==
    IF ~ap.approved THEN [w |-> w, result |-> NoOrder]
    ELSE execute_approved(w, i, ap, ltp, t)

\* _exit_position(position, exit_price, reason) for the in-memory position p
exit_position(w, s, p, exit_price) ==
    LET exit_side == IF p.quantity > 0 THEN "SELL" ELSE "BUY"
        exit_quantity == IAbs(p.quantity)
        fill_price == calculate_slippage(exit_price, exit_side)
        exit_order == [symbol |-> s, side |-> exit_side, quantity |-> exit_quantity,
                       order_type |-> "MARKET", status |-> "FILLED",
                       fill_price |-> fill_price,
                       brokerage |-> R(PAPER_BROKERAGE_PER_ORDER),
                       simulated_ltp |-> exit_price]
        gross == IF p.quantity > 0
                 THEN RMul(RSub(fill_price, p.avg_price), R(exit_quantity))
                 ELSE RMul(RSub(p.avg_price, fill_price), R(exit_quantity))
        realized_pnl == RSub(gross, R(PAPER_BROKERAGE_PER_ORDER * 2))
    IN  [w EXCEPT !.orders = Append(@, exit_order),
                  !.ledger = DailyState_update_pnl(
                                 get_or_create_daily_state(w.ledger), realized_pnl, NoneR),
                  !.positions = [@ EXCEPT ![s] = NoPosition]]

\* the body of the monitoring loop for one position of the list read at the
\* start: mark to market, then the stop-loss test, then the target test
monitor_one(w, s, p0, current_price) ==
    IF current_price = NoneR THEN w
    ELSE
    LET p == Position_update_pnl(p0, current_price)
        w1 == [w EXCEPT !.positions = [@ EXCEPT ![s] = p]]
        stop_hit == Truthy(p.stop_loss_price)
                    /\ \/ p.quantity > 0 /\ RLe(current_price, p.stop_loss_price)
                       \/ p.quantity < 0 /\ RLe(p.stop_loss_price, current_price)
        target_hit == Truthy(p.target_price)
                      /\ \/ p.quantity > 0 /\ RLe(p.target_price, current_price)
                         \/ p.quantity < 0 /\ RLe(current_price, p.target_price)
        w2 == IF stop_hit THEN exit_position(w1, s, p, current_price) ELSE w1
    IN  IF target_hit THEN exit_position(w2, s, p, current_price) ELSE w2

RECURSIVE monitor_loop(_, _, _, _)
monitor_loop(w, book0, S, ltp_data) ==
    IF S = {} THEN w
    ELSE LET s == CHOOSE x \in S : TRUE
         IN  monitor_loop(monitor_one(w, s, book0[s], ltp_data[s]),
                          book0, S \ {s}, ltp_data)

\* monitor_positions() when get_ltp delivers ltp_data (fetch_ok = FALSE:
\* the fetch raised and nothing is done)
monitor_positions(w, ltp_data, fetch_ok) ==
    IF get_all_positions(w.positions) = {} \/ ~fetch_ok THEN w
    ELSE monitor_loop(w, w.positions, get_all_positions(w.positions), ltp_data)

RECURSIVE flatten_loop(_, _, _, _)
flatten_loop(w, book0, S, ltp_data) ==
    IF S = {} THEN w
    ELSE LET s == CHOOSE x \in S : TRUE
             w1 == IF Truthy(ltp_data[s])
                   THEN exit_position(w, s, book0[s], ltp_data[s])
                   ELSE w
         IN  flatten_loop(w1, book0, S \ {s}, ltp_data)

\* flatten_all_positions(reason)
flatten_all_positions(w, ltp_data, fetch_ok) ==
    IF get_all_positions(w.positions) = {} \/ ~fetch_ok THEN w
    ELSE flatten_loop(w, w.positions, get_all_positions(w.positions), ltp_data)

-----------------------------------------------------------------------------
(* Inputs *)

Prices == {R(50), R(100), R(150)}

MkIntent(strategy, symbol, side, entry_type, entry, qty, stop, target, conf, risk) ==
    [exists |-> TRUE, strategy_id |-> strategy, symbol |-> symbol, side |-> side,
     entry_type |-> entry_type, entry_price |-> entry, quantity |-> qty,
     stop_loss_price |-> stop, target_price |-> target,
     confidence_score |-> conf, expected_risk_rupees |-> risk]

Confidences == {65, 72, 90}
Risks == {R(0), R(30), R(50), R(150), R(400)}

\* Proposals handed to approve(): every stop-loss/entry relation, with and
\* without entry price (a market order carries None or 0.0)
Intents ==
    {MkIntent(st, sy, sd, IF Truthy(e) THEN "LIMIT" ELSE "MARKET", e, q, sl, NoneR, c, r) :
        st \in {"momentum_breakout", "mean_reversion"},
        sy \in {"MCX", "RELIANCE"},
        sd \in Sides,
        e \in {NoneR, R(0), R(100)},
        q \in 1..MaxQty,
        sl \in {NoneR} \cup Prices,
        c \in Confidences,
        r \in Risks}

EmptyBook == [s \in Symbols |-> NoPosition]

\* a long position marked below its entry
LosingBook ==
    [EmptyBook EXCEPT !["MCX"] =
        [exists |-> TRUE, quantity |-> 2, avg_price |-> R(100),
         current_price |-> R(50), unrealized_pnl |-> R(-100),
         stop_loss_price |-> NoneR, target_price |-> NoneR,
         strategy |-> "momentum_breakout"]]

StartOfSession == 890     \* 14:50 of day 0

\* Ledger rows approve() may find: a budget of 300, 60, 0 or -50 left after
\* realized losses, the latch set or not, 0, 2 or 5 trades done, and the
\* active strategy with a switch stamped 5 or 30 minutes ago or never
AnyLedgerRow ==
    {[NewDailyState EXCEPT
         !.realized_pnl = R(-loss),
         !.total_pnl = R(-loss),
         !.loss_budget_remaining = R(MAX_DAILY_LOSS - loss),
         !.safe_mode = sm,
         !.trades_count = tc,
         !.active_strategy = sw[1],
         !.strategy_switched_at = sw[2]] :
        loss \in {0, 240, 300, 350},
        sm \in BOOLEAN,
        tc \in {0, REQUIRE_HITL_FIRST_N_TRADES, MAX_TRADES_PER_DAY},
        sw \in {<<None, NoneI>>, <<"momentum_breakout", NoneI>>,
                <<"momentum_breakout", StartOfSession - 5>>,
                <<"momentum_breakout", StartOfSession - 30>>}}

LedgerStates ==
    {NoLedger} \cup
    {l \in AnyLedgerRow : RLt(l.loss_budget_remaining, R(0)) => l.safe_mode}

IdleSched == [pc |-> "idle"]

\* the scheduler object before start() is called
NotStarted == [pc |-> "init", running |-> FALSE]

-----------------------------------------------------------------------------
(* Operations *)

\* risk_policy.approve(intent)
Approve(i) ==
    LET r == approve(ledger, positions, i, now)
    IN  /\ ledger' = r.ds
        /\ approval' = r.ap
        /\ intent' = i
        /\ UNCHANGED <<positions, orders, recent_order_hashes, now, result,
                       intent_status, analysis_vars, sched>>

\* risk_policy.approve(intent) where the caller keeps the decision to
\* itself: what stays behind is the ledger
ApproveLedger(i) ==
    /\ ledger' = approve(ledger, positions, i, now).ds
    /\ UNCHANGED <<positions, orders, recent_order_hashes, now, intent, intent_status, analysis_vars,
                   approval, result, sched>>

\* what get_ltp may deliver for the symbols asked: a price each, or none
LtpData == [AllowedSymbols -> {NoneR, R(50), R(150)}]

TheWorld == World(ledger, positions, orders, recent_order_hashes)

SetWorld(w) ==
    /\ ledger' = w.ledger
    /\ positions' = w.positions
    /\ orders' = w.orders
    /\ recent_order_hashes' = w.hashes

\* execution_paper.execute(intent, approval)
Execute(i, ap, ltp) ==
    LET r == execute(TheWorld, i, ap, ltp, now)
    IN  /\ Len(orders) < MaxOrders
        /\ SetWorld(r.w)
        /\ result' = r.result
        /\ intent' = NoIntent
        /\ approval' = NoDecision
        /\ UNCHANGED <<now, intent_status, analysis_vars, sched>>

\* execution_paper.monitor_positions()
MonitorPositions(ltp_data, fetch_ok) ==
    /\ SetWorld(monitor_positions(TheWorld, ltp_data, fetch_ok))
    /\ UNCHANGED <<now, intent, intent_status, analysis_vars, approval, result, sched>>

\* execution_paper.flatten_all_positions(reason)
FlattenAllPositions(ltp_data, fetch_ok) ==
    /\ SetWorld(flatten_all_positions(TheWorld, ltp_data, fetch_ok))
    /\ UNCHANGED <<now, intent, intent_status, analysis_vars, approval, result, sched>>

\* risk_policy.trigger_safe_mode(reason)
TriggerSafeMode ==
    /\ ledger' = trigger_safe_mode(ledger)
    /\ UNCHANGED <<positions, orders, recent_order_hashes, now, intent, intent_status, analysis_vars,
                   approval, result, sched>>

\* risk_policy.reset_daily_state()
ResetDailyState ==
    /\ ledger' = reset_daily_state
    /\ UNCHANGED <<positions, orders, recent_order_hashes, now, intent, intent_status, analysis_vars,
                   approval, result, sched>>

\* the clock: minutes pass within the day ...
ClockSteps == {15}
SessionMinutes == 30      \* the modelled part of a day: 14:50 to 15:20

AdvanceClock(d) ==
    /\ (now % DayMinutes) + d <= StartOfSession + SessionMinutes
    /\ now' = now + d
    /\ UNCHANGED <<ledger, positions, orders, recent_order_hashes, intent, intent_status, analysis_vars,
                   approval, result, sched>>

\* ... and the date changes: get_today_date_str() names a date that has no
\* daily_state row yet
NewDay ==
    /\ now \div DayMinutes < MaxDay
    /\ now' = ((now \div DayMinutes) + 1) * DayMinutes + StartOfSession
    /\ ledger' = NoLedger
    /\ UNCHANGED <<positions, orders, recent_order_hashes, intent, intent_status, analysis_vars, approval,
                   result, sched>>

-----------------------------------------------------------------------------
(* TradingScheduler._run_trading_cycle (app/core/scheduler.py) *)

TRADING_START == 555      \* 09:15
TRADING_END == 915        \* 15:15
EXIT_ONLY_START == 900    \* 15:00

\* utils.is_trading_hours / utils.is_exit_only_time
is_trading_hours(t) ==
    ~((t % DayMinutes) < TRADING_START) /\ ~((t % DayMinutes) > TRADING_END)
is_exit_only_time_after_close(t) == (t % DayMinutes) > TRADING_END
is_exit_only_time(t) == (t % DayMinutes) >= EXIT_ONLY_START

\* self.symbols, in configuration order
SymbolList == <<"HINDCOPPER", "MCX">>

\* Proposals as _generate_trade_intent builds them for a symbol: quantity 1;
\* mean reversion is a limit order at the last price with a 1% stop, the
\* breakout strategies are market orders that carry no entry price
EvaluatorIntents(sy) ==
    {MkIntent("mean_reversion", sy, "BUY", "LIMIT", R(100), 1, R(99), R(150), c, R(1)) :
        c \in {65, 90}}
    \cup
    {MkIntent("mean_reversion", sy, "SELL", "LIMIT", R(100), 1, R(101), R(50), c, R(1)) :
        c \in {90}}
    \cup
    {MkIntent("momentum_breakout", sy, "BUY", "MARKET", NoneR, 1, R(50), R(150), c, R(50)) :
        c \in {90}}

\* a failed fetch delivers nothing
NoPrices == [s \in AllowedSymbols |-> NoneR]

\* The cycle up to the safe-mode test: the trading-hours test, the
\* exit-only test, the read of today's ledger into the local daily_state,
\* Step 1 (monitor existing positions), then the safe-mode test on the
\* local daily_state and the exit-only return
TickBegin(ltp_data, fetch_ok) ==
    /\ sched.pc = "idle"
    /\ IF ~is_trading_hours(now)
       THEN UNCHANGED <<ledger, positions, orders, recent_order_hashes, sched>>
       ELSE LET daily_state == get_or_create_daily_state(ledger)
                w0 == [TheWorld EXCEPT !.ledger = daily_state]
            IN  /\ SetWorld(monitor_positions(w0, ltp_data, fetch_ok))
                /\ sched' = IF daily_state.safe_mode THEN [pc |-> "flatten"]
                            ELSE IF is_exit_only_time(now) THEN IdleSched
                            ELSE [pc |-> "symbols",
                                  daily_state |-> daily_state,
                                  todo |-> SymbolList]
    /\ UNCHANGED <<now, intent, intent_status, analysis_vars, approval, result>>

\* SAFE_MODE on the local daily_state: flatten all positions and return
TickFlatten(ltp_data, fetch_ok) ==
    /\ sched.pc = "flatten"
    /\ SetWorld(flatten_all_positions(TheWorld, ltp_data, fetch_ok))
    /\ sched' = IdleSched
    /\ UNCHANGED <<now, intent, intent_status, analysis_vars, approval, result>>

\* the loop moves on to the next symbol with the local daily_state ds, or
\* the cycle ends
AfterSymbol(ds) ==
    IF Len(sched.todo) = 1 THEN IdleSched
    ELSE [sched EXCEPT !.todo = Tail(@), !.daily_state = ds]

on_symbol_exception_abort(ds) == IdleSched
\* except Exception: the error is logged and the loop continues with the
\* next symbol
on_symbol_exception(ds) == AfterSymbol(ds)

\* one iteration of the per-symbol loop in which the snapshot, its save or
\* the evaluation raised
TickSymbolRaise ==
    /\ sched.pc = "symbols"
    /\ sched' = on_symbol_exception(sched.daily_state)
    /\ UNCHANGED <<ledger, positions, orders, recent_order_hashes, now,
                   intent, intent_status, analysis_vars, approval, result>>

\* one iteration of the per-symbol loop in which evaluate() returns
\* NO_TRADE
TickSymbolNoTrade ==
    /\ sched.pc = "symbols"
    /\ sched' = AfterSymbol(sched.daily_state)
    /\ UNCHANGED <<ledger, positions, orders, recent_order_hashes, now,
                   intent, intent_status, analysis_vars, approval, result>>

\* the status of the row storage.save_trade_intent inserts
save_trade_intent == "pending"

\* the status of the proposal after the execution step: `order and
\* order.status == OrderStatus.FILLED` with no OrderStatus in the module's
\* names raises NameError for every order that is not None, and the
\* per-symbol handler leaves the status as it was saved
status_after_execute(order) ==
    IF order = NoOrder THEN "execution_failed"
    ELSE save_trade_intent

\* one iteration of the per-symbol loop with the proposal i: approval, then
\* the HITL bookkeeping on the local daily_state or the execution
TickSymbolTrade(i, ltp) ==
    /\ sched.pc = "symbols"
    /\ i.symbol = Head(sched.todo)
    /\ Len(orders) < MaxOrders
    /\ LET r == approve(ledger, positions, i, now)
           w1 == [TheWorld EXCEPT !.ledger = r.ds]
       IN  IF r.raised
           THEN /\ SetWorld(w1)
                /\ sched' = on_symbol_exception(sched.daily_state)
                /\ result' = result
           ELSE IF ~r.ap.approved
           THEN /\ SetWorld(w1)
                /\ sched' = AfterSymbol(sched.daily_state)
                /\ result' = result
           ELSE IF r.ap.hitl_required
           THEN LET ds == [sched.daily_state EXCEPT !.hitl_approvals_pending = @ + 1]
                IN  /\ sched.daily_state.hitl_approvals_pending < MaxPending
                    /\ SetWorld([w1 EXCEPT !.ledger = ds])
                    /\ sched' = AfterSymbol(ds)
                    /\ result' = result
           ELSE LET e == execute(w1, i, r.ap, ltp, now)
                IN  /\ SetWorld(e.w)
                    /\ sched' = IF e.result = NoOrder
                                THEN AfterSymbol(sched.daily_state)
                                ELSE on_symbol_exception(sched.daily_state)
                    /\ result' = e.result
    /\ UNCHANGED <<now, intent, approval, analysis_vars>>

\* the status the same iteration leaves in the trade_intents row of the
\* proposal i: 'pending' as saved, then update_intent_status on each path
intent_status_written(i, ltp) ==
    LET r == approve(ledger, positions, i, now)
        w1 == [TheWorld EXCEPT !.ledger = r.ds]
    IN  IF r.raised THEN save_trade_intent
        ELSE IF ~r.ap.approved THEN "rejected"
        ELSE IF r.ap.hitl_required THEN "pending_hitl"
        ELSE status_after_execute(execute(w1, i, r.ap, ltp, now).result)

TickSymbolStatus(i, ltp) == intent_status' = intent_status_written(i, ltp)

-----------------------------------------------------------------------------
(* approve() applied once to every ledger row and proposal *)

InitApprove ==
    /\ ledger \in LedgerStates
    /\ positions \in {EmptyBook, LosingBook}
    /\ orders = <<>>
    /\ recent_order_hashes = <<>>
    /\ now = StartOfSession
    /\ intent = NoIntent
    /\ intent_status = None
    /\ evaluation = NoEvaluation
    /\ stock_data = NoStockData
    /\ ensemble = NoEnsemble
    /\ approval = NoDecision
    /\ result = NoOrder
    /\ sched = IdleSched
    /\ loop = NotStarted

NextApprove ==
    intent = NoIntent /\ \E i \in Intents : Approve(i) /\ UNCHANGED loop

SpecApprove == InitApprove /\ [][NextApprove]_vars

-----------------------------------------------------------------------------
(* The system: the operations applied one at a time, in any order; the
   trade_intents table is followed in the scheduler's specification only *)

StopFor(sd) == IF sd = "BUY" THEN R(50) ELSE R(150)
TargetFor(sd) == IF sd = "BUY" THEN R(150) ELSE R(50)

\* Proposals of direct approve() calls: priced market orders with a stop
\* and a target on the right sides
SysIntents ==
    {MkIntent(st, sy, sd, "MARKET", R(100), q, StopFor(sd), TargetFor(sd), 90, R(0)) :
        st \in {"momentum_breakout"},
        sy \in {"MCX"},
        sd \in Sides,
        q \in {1, MaxQty}}

\* The decisions execute() is handed: it reads approved and
\* adjusted_quantity only
ExecDecisions ==
    {[approved |-> a, adjusted_quantity |-> NoneI] : a \in BOOLEAN}

Idle == sched.pc = "idle"

\* the prices a fetch delivers matter when it succeeds and there are
\* positions to price
Fetch(ld, ok) ==
    /\ ok \/ ld = NoPrices
    /\ get_all_positions(positions) # {} \/ ld = NoPrices

Init ==
    /\ ledger = NoLedger
    /\ positions = EmptyBook
    /\ orders = <<>>
    /\ recent_order_hashes = <<>>
    /\ now = StartOfSession
    /\ intent = NoIntent
    /\ intent_status = None
    /\ evaluation = NoEvaluation
    /\ stock_data = NoStockData
    /\ ensemble = NoEnsemble
    /\ approval = NoDecision
    /\ result = NoOrder
    /\ sched = IdleSched
    /\ loop = NotStarted

Next ==
    \/ \E i \in SysIntents : Idle /\ ApproveLedger(i) /\ UNCHANGED loop
    \/ \E i \in SysIntents, ap \in ExecDecisions, ltp \in {NoneR, R(50), R(150)} :
          Idle /\ Execute(i, ap, ltp) /\ UNCHANGED loop
    \/ \E ld \in LtpData, ok \in BOOLEAN :
          Idle /\ Fetch(ld, ok) /\ MonitorPositions(ld, ok) /\ UNCHANGED loop
    \/ \E ld \in LtpData, ok \in BOOLEAN :
          Idle /\ Fetch(ld, ok) /\ FlattenAllPositions(ld, ok) /\ UNCHANGED loop
    \/ Idle /\ TriggerSafeMode /\ UNCHANGED loop
    \/ Idle /\ ResetDailyState /\ UNCHANGED loop
    \/ \E d \in ClockSteps : Idle /\ AdvanceClock(d) /\ UNCHANGED loop
    \/ Idle /\ NewDay /\ UNCHANGED loop
    \/ \E ld \in LtpData, ok \in BOOLEAN :
          Fetch(ld, ok) /\ TickBegin(ld, ok) /\ UNCHANGED loop
    \/ \E ld \in LtpData, ok \in BOOLEAN :
          Fetch(ld, ok) /\ TickFlatten(ld, ok) /\ UNCHANGED loop
    \/ TickSymbolRaise /\ UNCHANGED loop
    \/ TickSymbolNoTrade /\ UNCHANGED loop
    \/ \E sy \in AllowedSymbols :
          \E i \in EvaluatorIntents(sy), ltp \in {NoneR, R(50), R(150)} :
              TickSymbolTrade(i, ltp) /\ UNCHANGED <<loop, intent_status>>

Spec == Init /\ [][Next]_vars

-----------------------------------------------------------------------------
(* TradingScheduler.start(): the loop around the cycle, stop() and _cleanup() *)

\* Today's ledger as start() may find it: no row yet, or the row after the
\* first trades of the day
SchedLedgers ==
    {NoLedger,
     [NewDailyState EXCEPT !.trades_count = REQUIRE_HITL_FIRST_N_TRADES,
                           !.active_strategy = "mean_reversion"]}

cleanup_without_flatten(w, t, ltp_data, fetch_ok) == w
\* _cleanup(): flatten all positions if it is exit-only time
cleanup(w, t, ltp_data, fetch_ok) ==
    IF is_exit_only_time(t) THEN flatten_all_positions(w, ltp_data, fetch_ok)
    ELSE w

\* start(): the prerequisites hold, self.running = True, the loop is entered
Start ==
    /\ loop.pc = "init"
    /\ loop' = [pc |-> "while", running |-> TRUE]
    /\ UNCHANGED <<ledger, positions, orders, recent_order_hashes, now,
                   intent, intent_status, analysis_vars, approval, result, sched>>

\* _signal_handler -> stop(): self.running = False, wherever the loop is
StopSignal ==
    /\ loop.pc \notin {"init", "done"}
    /\ loop.running
    /\ loop' = [loop EXCEPT !.running = FALSE]
    /\ UNCHANGED <<ledger, positions, orders, recent_order_hashes, now,
                   intent, intent_status, analysis_vars, approval, result, sched>>

\* while self.running: the next cycle, or out of the loop into finally
LoopTest ==
    /\ loop.pc = "while"
    /\ loop' = [loop EXCEPT !.pc = IF loop.running THEN "cycle" ELSE "cleanup"]
    /\ UNCHANGED <<ledger, positions, orders, recent_order_hashes, now,
                   intent, intent_status, analysis_vars, approval, result, sched>>

\* the loop is inside self._run_trading_cycle()
InCycle == loop.pc = "cycle"

\* _run_trading_cycle() returns when its last step is done
TickDone ==
    loop' = IF sched'.pc = "idle" THEN [loop EXCEPT !.pc = "sleep"] ELSE loop

\* an exception raised outside the per-symbol try (the read of the ledger,
\* position monitoring, the safe-mode flatten) leaves the cycle: start()
\* logs it and goes to finally
TickEscapes ==
    /\ InCycle
    /\ sched.pc \in {"idle", "flatten"}
    /\ sched' = IdleSched
    /\ loop' = [loop EXCEPT !.pc = "cleanup"]
    /\ UNCHANGED <<ledger, positions, orders, recent_order_hashes, now,
                   intent, intent_status, analysis_vars, approval, result>>

\* one iteration of the per-symbol loop in which a write to storage
\* (snapshot, proposal, decision) fails: get_connection rolls back and
\* re-raises, the per-symbol handler catches it
TickSymbolWriteFails ==
    /\ sched.pc = "symbols"
    /\ sched' = on_symbol_exception(sched.daily_state)
    /\ UNCHANGED <<ledger, positions, orders, recent_order_hashes, now,
                   intent, intent_status, analysis_vars, approval, result>>

\* if self.running: time.sleep(self.loop_interval)
Sleep(d) ==
    /\ loop.pc = "sleep"
    /\ loop' = [loop EXCEPT !.pc = "while"]
    /\ IF loop.running
       THEN /\ (now % DayMinutes) + d <= StartOfSession + SessionMinutes
            /\ now' = now + d
       ELSE now' = now
    /\ UNCHANGED <<ledger, positions, orders, recent_order_hashes, intent, intent_status, analysis_vars,
                   approval, result, sched>>

\* finally: self._cleanup()
Cleanup(ltp_data, fetch_ok) ==
    /\ loop.pc = "cleanup"
    /\ SetWorld(cleanup(TheWorld, now, ltp_data, fetch_ok))
    /\ loop' = [loop EXCEPT !.pc = "done"]
    /\ UNCHANGED <<now, intent, intent_status, analysis_vars, approval, result, sched>>

InitSched ==
    /\ ledger \in SchedLedgers
    /\ positions = EmptyBook
    /\ orders = <<>>
    /\ recent_order_hashes = <<>>
    /\ now = StartOfSession
    /\ intent = NoIntent
    /\ intent_status = None
    /\ evaluation = NoEvaluation
    /\ stock_data = NoStockData
    /\ ensemble = NoEnsemble
    /\ approval = NoDecision
    /\ result = NoOrder
    /\ sched = IdleSched
    /\ loop = NotStarted

NextSched ==
    \/ Start
    \/ StopSignal
    \/ LoopTest
    \/ \E ld \in LtpData, ok \in BOOLEAN :
          InCycle /\ Fetch(ld, ok) /\ TickBegin(ld, ok) /\ TickDone
    \/ \E ld \in LtpData, ok \in BOOLEAN :
          InCycle /\ Fetch(ld, ok) /\ TickFlatten(ld, ok) /\ TickDone
    \/ InCycle /\ TickSymbolRaise /\ TickDone
    \/ InCycle /\ TickSymbolWriteFails /\ TickDone
    \/ InCycle /\ TickSymbolNoTrade /\ TickDone
    \/ \E sy \in AllowedSymbols :
          \E i \in EvaluatorIntents(sy), ltp \in {NoneR, R(50), R(150)} :
              InCycle /\ TickSymbolTrade(i, ltp) /\ TickSymbolStatus(i, ltp) /\ TickDone
    \/ TickEscapes
    \/ TriggerSafeMode /\ UNCHANGED loop
    \/ \E d \in ClockSteps : Sleep(d)
    \/ \E ld \in LtpData, ok \in BOOLEAN : Fetch(ld, ok) /\ Cleanup(ld, ok)

SpecSched == InitSched /\ [][NextSched]_vars

-----------------------------------------------------------------------------
(* Properties of approve() *)

\* the ledger row approve() reads
LedgerRead == get_or_create_daily_state(ledger)

\* a step in which approve() was applied to a proposal
ApproveCalled == intent' # intent /\ intent'.exists

Mentions(reason, part) == \E k \in DOMAIN reason : reason[k] = part

\* the rejection reasons whose text contains "budget"
ReasonsMentioningBudget ==
    {"Daily loss budget exhausted", "Trade risk exceeds remaining budget"}

\* a stop-loss on the protective side of the entry price
ValidStopLoss(i) ==
    /\ i.stop_loss_price # NoneR
    /\ i.entry_price # NoneR
    /\ i.side = "BUY" => RLt(i.stop_loss_price, i.entry_price)
    /\ i.side = "SELL" => RLt(i.entry_price, i.stop_loss_price)

\* C1: a decision with approved = true is only ever returned for a proposal
\* whose stop-loss is set, strictly below the entry price for a BUY and
\* strictly above it for a SELL.
C1_ApprovedHasValidStop ==
    (approval.returned /\ approval.approved) => ValidStopLoss(intent)

C1_Witness ==
    /\ approval.returned /\ approval.approved
    /\ intent.side = "SELL"
    /\ RLt(intent.entry_price, intent.stop_loss_price)

\* C4: approve() called on a ledger whose remaining budget is 0 or less,
\* with a valid stop-loss, returns a rejection whose reason mentions the
\* budget, and leaves the persisted ledger in safe mode.
C4_BudgetExhaustedRejected ==
    [][(ApproveCalled /\ RLe(LedgerRead.loss_budget_remaining, R(0))
          /\ ValidStopLoss(intent'))
       => /\ approval'.returned /\ ~approval'.approved
          /\ approval'.rejection_reason \in ReasonsMentioningBudget
          /\ ledger'.safe_mode]_vars

\* C5: approve() called on a ledger whose trade count has reached the
\* maximum returns a rejection, whatever the proposal.
C5_MaxTradesRejects ==
    [][(ApproveCalled /\ LedgerRead.trades_count >= LedgerRead.max_trades)
       => (approval'.returned /\ ~approval'.approved)]_vars

\* C6: approve() called on a ledger in safe mode returns a rejection that
\* carries the flag safe_mode and reports safe_mode_active, whatever the
\* proposal.
C6_SafeModeRejects ==
    [][(ApproveCalled /\ LedgerRead.safe_mode)
       => /\ approval'.returned /\ ~approval'.approved
          /\ "safe_mode" \in approval'.guardrail_flags
          /\ approval'.safe_mode_active]_vars

\* C7: an approved decision requires HITL with a reason that mentions
\* "first" when the day's trade count is below the first-N setting, and with
\* a reason that mentions the confidence when the confidence is below the
\* threshold; when both hold the reason mentions both.
C7_HitlRequired ==
    [][(ApproveCalled /\ approval'.returned /\ approval'.approved)
       => /\ LedgerRead.trades_count < REQUIRE_HITL_FIRST_N_TRADES
             => /\ approval'.hitl_required
                /\ Mentions(approval'.hitl_reason, "First N trades require approval")
          /\ intent'.confidence_score < HITL_CONFIDENCE_THRESHOLD
             => /\ approval'.hitl_required
                /\ Mentions(approval'.hitl_reason, "Low confidence")]_vars

C7_Witness ==
    /\ approval.returned /\ approval.approved
    /\ approval.trades_today < REQUIRE_HITL_FIRST_N_TRADES
    /\ intent.confidence_score < HITL_CONFIDENCE_THRESHOLD
    /\ Len(approval.hitl_reason) = 2

\* C8: an adjusted quantity is at most the requested quantity, and at least
\* 1 whenever the per-share risk is greater than 0.
C8_QuantityOnlyShrinks ==
    (approval.returned /\ approval.adjusted_quantity # NoneI)
    => /\ approval.adjusted_quantity <= intent.quantity
       /\ RLt(R(0), risk_per_share(intent)) => approval.adjusted_quantity >= 1

C8_Witness ==
    /\ approval.returned /\ approval.approved
    /\ approval.adjusted_quantity # NoneI
    /\ approval.adjusted_quantity < intent.quantity

-----------------------------------------------------------------------------
(* Properties of the system *)

SameDate == now' \div DayMinutes = now \div DayMinutes

\* C2: once today's ledger has safe_mode set, every operation other than
\* reset_daily_state (approve, execute, monitor_positions,
\* flatten_all_positions, trigger_safe_mode, each step of a scheduler cycle)
\* that stays on the same date leaves a ledger with safe_mode set.
C2_SafeModeLatch ==
    [][(ledger.exists /\ ledger.safe_mode /\ SameDate /\ ~ResetDailyState)
          => (ledger'.exists /\ ledger'.safe_mode)]_vars

\* safe mode was triggered by hand (the budget is still positive) on a
\* ledger into which an exit has folded a realized amount
C2_Witness ==
    /\ ledger.exists /\ ledger.safe_mode
    /\ RLt(R(0), ledger.loss_budget_remaining)
    /\ ~RIsZero(ledger.realized_pnl)

\* C3: in every reachable state the stored ledger has a negative remaining
\* loss budget only together with safe_mode set.
C3_NegativeBudgetOnlyInSafeMode ==
    ledger.exists =>
        (RLt(ledger.loss_budget_remaining, R(0)) => ledger.safe_mode)

\* an exit folded a loss larger than the budget into the ledger
C3_Witness ==
    /\ ledger.exists /\ ledger.safe_mode
    /\ RLt(ledger.loss_budget_remaining, R(0))
    /\ Len(orders) >= 2

\* the orders of instrument s, in the order they were filled
RECURSIVE OrdersOf(_, _)
OrdersOf(ords, s) ==
    IF ords = <<>> THEN <<>>
    ELSE IF Head(ords).symbol = s
    THEN <<Head(ords)>> \o OrdersOf(Tail(ords), s)
    ELSE OrdersOf(Tail(ords), s)

\* the first two orders ever filled in s are same-direction fills of one
\* quantity and nothing else was filled in s
TwoEqualFills(s) ==
    LET os == OrdersOf(orders, s)
    IN  /\ Len(os) = 2
        /\ os[1].side = os[2].side
        /\ os[1].quantity = os[2].quantity

\* C9: from no position in an instrument, two same-direction fills of
\* quantity q1 at fill prices p1 and p2 leave a position of 2*q1 (signed by
\* the direction) at the average price (q1*p1 + q1*p2) / (2*q1).
C9_TwoFillsAverage ==
    \A s \in Symbols :
        TwoEqualFills(s) =>
            LET os == OrdersOf(orders, s)
                q1 == os[1].quantity
            IN  /\ positions[s].exists
                /\ positions[s].quantity =
                       (IF os[1].side = "BUY" THEN 2 * q1 ELSE -(2 * q1))
                /\ positions[s].avg_price =
                       RDiv(RAdd(RMul(R(q1), os[1].fill_price),
                                 RMul(R(q1), os[2].fill_price)),
                            R(2 * q1))

\* two such fills at different prices
C9_Witness ==
    \E s \in Symbols :
        /\ TwoEqualFills(s)
        /\ OrdersOf(orders, s)[1].fill_price # OrdersOf(orders, s)[2].fill_price
        /\ positions[s].exists

\* C10: the positions table, keyed by instrument (one row per instrument at
\* most), never holds a row with quantity 0.
C10_NoZeroPosition ==
    \A s \in Symbols : positions[s].exists => positions[s].quantity # 0

\* execute() has just returned a fill that closed the position the first
\* fill had opened, and the row is gone
C10_Witness ==
    \E s \in Symbols :
        /\ ~positions[s].exists
        /\ Len(OrdersOf(orders, s)) = 2
        /\ OrdersOf(orders, s)[1].side # OrdersOf(orders, s)[2].side
        /\ OrdersOf(orders, s)[1].quantity = OrdersOf(orders, s)[2].quantity
        /\ result = orders[Len(orders)]
        /\ result.symbol = s

-----------------------------------------------------------------------------
(* Properties of execute() *)

\* what get_ltp([symbol]).get(symbol) may deliver to execute()
LtpValues == {NoneR, R(50), R(150)}

\* a step that is the call execute(i, ap, ltp)
ExecuteCalled(i, ap, ltp) == Idle /\ Execute(i, ap, ltp)

\* an identical proposal (same hash) was passed to execute() less than 5
\* minutes ago
SeenWithinWindow(i) ==
    /\ intent_hash(i) \in DOMAIN recent_order_hashes
    /\ now - recent_order_hashes[intent_hash(i)] >= 0
    /\ (now - recent_order_hashes[intent_hash(i)]) * 60 < DedupWindowSeconds

\* C11: of two identical approved proposals passed to execute() within 5
\* minutes, the first was executed (an order of that instrument and side is
\* in the log) and the second returns no order and changes neither the
\* orders, nor the positions, nor the ledger.
C11_DuplicateExecutedOnce ==
    [][\A i \in SysIntents, ap \in ExecDecisions, ltp \in LtpValues :
          (ExecuteCalled(i, ap, ltp) /\ ap.approved /\ SeenWithinWindow(i))
          => /\ result' = NoOrder
             /\ UNCHANGED <<orders, positions, ledger>>
             /\ \E k \in DOMAIN orders :
                   /\ orders[k].symbol = i.symbol
                   /\ orders[k].side = i.side
                   /\ orders[k].status = "FILLED"]_vars

-----------------------------------------------------------------------------
(* The pipeline: approve(), then execute() of the decision it returned *)

\* Proposals for the pipeline: both strategies, market and limit orders at
\* entry price 100, with and without a stop-loss, confidence high
\* enough for a strategy switch
PipeIntents ==
    {MkIntent(st, "MCX", sd, ty, R(100), q,
              IF sl THEN StopFor(sd) ELSE NoneR, TargetFor(sd), c, R(0)) :
        st \in {"momentum_breakout", "mean_reversion"},
        sd \in Sides,
        ty \in {"MARKET", "LIMIT"},
        q \in {MaxQty},
        sl \in BOOLEAN,
        c \in {90}}

InitPipeline == Init

NextPipeline ==
    \/ \E i \in PipeIntents : ~approval.returned /\ Approve(i) /\ UNCHANGED loop
    \/ \E ltp \in LtpValues :
          /\ approval.returned /\ Len(orders) < MaxOrders
          /\ Execute(intent, approval, ltp) /\ UNCHANGED loop
    \/ \E d \in ClockSteps : AdvanceClock(d) /\ UNCHANGED loop

SpecPipeline == InitPipeline /\ [][NextPipeline]_vars

\* a step that is the call execute(intent, approval) of the pipeline
ExecuteStep == approval.returned /\ ~approval'.returned

\* C12: execute() of a decision that is not approved returns no order and
\* leaves the orders, the positions, the ledger and the de-dup cache as
\* they were.
C12_UnapprovedExecuteChangesNothing ==
    [][(ExecuteStep /\ ~approval.approved)
          => /\ result' = NoOrder
             /\ UNCHANGED <<orders, positions, ledger, recent_order_hashes>>]_vars

\* a rejected decision has been executed: approve() has left a ledger row,
\* the decision is consumed, and no call has recorded a hash
C12_Witness ==
    /\ ledger.exists
    /\ approval = NoDecision
    /\ result = NoOrder
    /\ recent_order_hashes = <<>>


-----------------------------------------------------------------------------
(* Properties of the strategy-switch control *)

\* the proposal's strategy differs from the active strategy the ledger
\* row l names
IsSwitch(l, i) == l.active_strategy # None /\ l.active_strategy # i.strategy_id

\* the row's last-switch timestamp is less than the cooldown before t
WithinCooldown(l, t) ==
    /\ l.strategy_switched_at # NoneI
    /\ t - l.strategy_switched_at >= 0
    /\ t - l.strategy_switched_at < STRATEGY_SWITCH_COOLDOWN_MINUTES

\* C13: approve() of a proposal whose strategy differs from the ledger's
\* active strategy, less than the cooldown after the last-switch timestamp,
\* returns a rejection that carries the flag strategy_switch_cooldown and
\* whose reason mentions the cooldown.
C13_SwitchWithinCooldownRejected ==
    [][(ApproveCalled /\ IsSwitch(LedgerRead, intent')
          /\ WithinCooldown(LedgerRead, now))
       => /\ approval'.returned /\ ~approval'.approved
          /\ "strategy_switch_cooldown" \in approval'.guardrail_flags
          /\ approval'.rejection_reason = "Strategy switch cooldown active"]_vars


-----------------------------------------------------------------------------
(* Properties of monitor_positions() *)

\* the book holds a long position in s, and nothing else, whose stop-loss
\* the reference price ref has reached
LongAtStop(s, ref) ==
    /\ positions[s].exists /\ positions[s].quantity > 0
    /\ \A s2 \in Symbols \ {s} : ~positions[s2].exists
    /\ Truthy(positions[s].stop_loss_price)
    /\ ref # NoneR
    /\ RLe(ref, positions[s].stop_loss_price)

\* C14: monitor_positions() on a long position whose reference price is at
\* or below its stop-loss appends an exit order for the full quantity,
\* removes the position and adds exactly
\* (reference price - average entry) * quantity - 2 * fee to the ledger's
\* realized PnL.
C14_StopLossExitPnl ==
    [][\A ld \in LtpData, s \in AllowedSymbols :
          (Idle /\ MonitorPositions(ld, TRUE) /\ LongAtStop(s, ld[s]))
          => /\ positions'[s] = NoPosition
             /\ Len(orders') > Len(orders)
             /\ orders'[Len(orders) + 1].side = "SELL"
             /\ orders'[Len(orders) + 1].quantity = positions[s].quantity
             /\ ledger'.realized_pnl =
                   RAdd(LedgerRead.realized_pnl,
                        RSub(RMul(RSub(ld[s], positions[s].avg_price),
                                  R(positions[s].quantity)),
                             R(2 * PAPER_BROKERAGE_PER_ORDER)))]_vars


-----------------------------------------------------------------------------
(* Properties of reset_daily_state() *)

\* C15: reset_daily_state(), whatever the ledger holds, leaves today's row
\* with the remaining budget at the configured maximum daily loss, the
\* trade count at 0 and safe_mode false.
C15_ResetReinitialises ==
    [][(Idle /\ ResetDailyState)
       => /\ ledger'.exists
          /\ ledger'.loss_budget_remaining = R(MAX_DAILY_LOSS)
          /\ ledger'.trades_count = 0
          /\ ~ledger'.safe_mode]_vars

\* reset after fills on the same day: nothing else brings the trade count
\* back to 0 without raising the pending approvals
C15_Witness ==
    /\ now < DayMinutes
    /\ Len(orders) = MaxOrders
    /\ ledger = NewDailyState


-----------------------------------------------------------------------------
(* Properties of the scheduler cycle *)

\* the per-symbol loop goes on with the next symbol, and the cycle ends only
\* after the last one
SymbolStepContinues ==
    IF Len(sched.todo) = 1
    THEN sched'.pc = "idle"
    ELSE sched'.pc = "symbols" /\ sched'.todo = Tail(sched.todo)

\* C16: an exception raised while one symbol is processed (snapshot,
\* evaluation, approval, execution) is caught inside the per-symbol loop:
\* the step in which it is raised, like every step of that loop, is followed
\* by the processing of every remaining configured symbol in the same cycle.
C16_SymbolFailureIsolated ==
    [][(sched.pc = "symbols" /\ sched' # sched) => SymbolStepContinues]_vars

\* execute() raised for the first symbol and the second one is up next
C16_Witness ==
    /\ sched.pc = "symbols"
    /\ sched.todo = <<"MCX">>
    /\ result = ExecuteRaised


\* the stop signal: self.running goes from True to False
StopReceived == loop.running /\ ~loop'.running

\* C17: the stop signal only clears self.running, so the cycle in progress
\* goes on to its end; the flag is read at the head of the loop only, where
\* it ends the loop instead of starting a cycle; and the loop terminates,
\* after the signal or after an exception that escaped a cycle, only through
\* _cleanup, which calls flatten_all_positions when the time is in the
\* exit-only window.
C17_StopBetweenTicksThenCleanup ==
    [][/\ StopReceived
          => /\ loop'.pc = loop.pc
             /\ UNCHANGED <<sched, ledger, positions, orders>>
       /\ (loop.pc = "cycle" /\ loop'.pc # "cycle")
          => \/ loop'.pc = "sleep" /\ sched'.pc = "idle"
             \/ loop'.pc = "cleanup" /\ sched.pc \in {"idle", "flatten"}
       /\ (loop.pc # "cycle" /\ loop'.pc = "cycle")
          => loop.pc = "while" /\ loop.running
       /\ (loop.pc = "while" /\ ~loop.running /\ loop' # loop)
          => loop'.pc = "cleanup"
       /\ (loop.pc # "done" /\ loop'.pc = "done")
          => loop.pc = "cleanup"
       /\ \A ld \in LtpData, ok \in BOOLEAN :
             (Fetch(ld, ok) /\ Cleanup(ld, ok) /\ is_exit_only_time(now))
             => World(ledger', positions', orders', recent_order_hashes')
                   = flatten_all_positions(TheWorld, ld, ok)]_vars

\* the stop signal has ended the loop in the exit-only window while a
\* position is open: _cleanup is about to run
C17_Witness ==
    /\ loop.pc = "cleanup" /\ ~loop.running
    /\ is_exit_only_time(now)
    /\ get_all_positions(positions) # {}


\* C18: a failed write to storage during a cycle is not swallowed: the
\* cycle does not go on to process further symbols after it.
C18_WriteFailureLeavesCycle ==
    [][(InCycle /\ TickSymbolWriteFails) => sched'.pc # "symbols"]_vars


-----------------------------------------------------------------------------
(* Properties of the ledger bookkeeping of execute() *)

\* C19: an execute() call that returns a filled order adds exactly one to
\* the ledger's trade count and makes the proposal's strategy the active
\* one; a call that returns no order, or does not return one because the
\* limit order stays pending, leaves the ledger row as it was.
C19_FillCountsOnce ==
    [][ExecuteStep
       => IF result'.status = "FILLED"
          THEN /\ ledger'.trades_count = LedgerRead.trades_count + 1
               /\ ledger'.active_strategy = intent.strategy_id
          ELSE ledger' = ledger]_vars

\* the second fill of the day, of a mean-reversion proposal
C19_Witness ==
    /\ ~approval.returned
    /\ result.status = "FILLED"
    /\ Len(orders) = 2
    /\ ledger.trades_count = 2
    /\ ledger.active_strategy = "mean_reversion"


\* C20: a fill of a proposal whose strategy differs from the ledger's active
\* strategy before the fill sets the ledger's last-switch timestamp to the
\* time of the fill.
C20_SwitchStamped ==
    [][(ExecuteStep /\ result'.status = "FILLED" /\ IsSwitch(LedgerRead, intent))
       => ledger'.strategy_switched_at = now]_vars


\* a step of the cycle that books a pending human approval
HitlBooked ==
    /\ sched.pc = "symbols"
    /\ ledger'.exists
    /\ ledger'.hitl_approvals_pending > LedgerRead.hitl_approvals_pending

\* C21: the pending-HITL bookkeeping of a cycle changes the pending counter
\* only: the trade count, realized PnL, remaining budget and safe-mode flag
\* that earlier steps of the cycle (monitoring exits, approve, execute) left
\* in the ledger are still there after it.
C21_HitlBookkeepingKeepsLedger ==
    [][HitlBooked
       => /\ ledger'.trades_count = LedgerRead.trades_count
          /\ ledger'.realized_pnl = LedgerRead.realized_pnl
          /\ ledger'.loss_budget_remaining = LedgerRead.loss_budget_remaining
          /\ ledger'.safe_mode = LedgerRead.safe_mode]_vars


-----------------------------------------------------------------------------
(* Properties of the exits *)

\* the orders a step appends for symbol s
NewOrdersFor(s) ==
    {k \in (Len(orders) + 1)..Len(orders') : orders'[k].symbol = s}

\* C22: one monitor_positions() pass records at most one exit order for
\* each open position and folds its realized PnL into the ledger at most
\* once, also when its stop-loss test and its target test both succeed.
C22_ExitedAtMostOnce ==
    [][\A ld \in LtpData :
          (Idle /\ MonitorPositions(ld, TRUE))
          => \A s \in Symbols : Cardinality(NewOrdersFor(s)) <= 1]_vars


-----------------------------------------------------------------------------
(* Properties of the start of a cycle *)

\* C23: every cycle, the ones outside trading hours included, starts with
\* position monitoring: the positions and orders after its first step are
\* the ones monitor_positions() leaves for the prices fetched.
C23_EveryTickMonitors ==
    [][\A ld \in LtpData :
          (InCycle /\ Fetch(ld, TRUE) /\ TickBegin(ld, TRUE) /\ TickDone)
          => /\ positions' = monitor_positions(TheWorld, ld, TRUE).positions
             /\ orders' = monitor_positions(TheWorld, ld, TRUE).orders]_vars


\* the first step of a cycle: _run_trading_cycle up to the safe-mode test
\* and the exit-only return
CycleFirstStep ==
    /\ InCycle /\ sched.pc = "idle"
    /\ loop'.running = loop.running
    /\ loop'.pc \in {"cycle", "sleep"}
    /\ sched' # sched \/ loop' # loop

\* C24: a cycle that finds the ledger's safe-mode flag set goes on to
\* flatten all positions, and after the flatten it ends: no symbol is
\* processed in it.
C24_SafeModeTickFlattens ==
    [][/\ (CycleFirstStep /\ LedgerRead.safe_mode) => sched'.pc = "flatten"
       /\ (sched.pc = "flatten" /\ sched' # sched) => sched'.pc = "idle"
       /\ \A ld \in LtpData, ok \in BOOLEAN :
             (InCycle /\ Fetch(ld, ok) /\ TickFlatten(ld, ok) /\ TickDone)
             => World(ledger', positions', orders', recent_order_hashes')
                   = flatten_all_positions(TheWorld, ld, ok)]_vars


\* the step of a cycle in which flatten_all_positions("safe_mode") is called
\* and returns
FlattenReturned == sched.pc = "flatten" /\ sched'.pc = "idle" /\ loop'.pc = "sleep"

\* C25: after flatten_all_positions() returns the position book is empty.
C25_FlattenEmptiesBook ==
    [][FlattenReturned => get_all_positions(positions') = {}]_vars


-----------------------------------------------------------------------------
(* Properties of the per-symbol steps *)

\* approve() returns approved = true with hitl_required = true for proposal i
NeedsHitl(i) ==
    LET r == approve(ledger, positions, i, now)
    IN  ~r.raised /\ r.ap.approved /\ r.ap.hitl_required

\* C26: for a proposal approved with hitl_required the cycle does not call
\* execute(): the pending-HITL counter of the ledger goes up by one, and no
\* order, no position and no trade count changes.
C26_HitlNotExecuted ==
    [][\A sy \in AllowedSymbols :
          \A i \in EvaluatorIntents(sy), ltp \in LtpValues :
             (InCycle /\ TickSymbolTrade(i, ltp) /\ TickDone /\ NeedsHitl(i))
             => /\ ledger'.hitl_approvals_pending
                      = LedgerRead.hitl_approvals_pending + 1
                /\ UNCHANGED <<orders, positions, recent_order_hashes>>
                /\ ledger'.trades_count = LedgerRead.trades_count]_vars



-----------------------------------------------------------------------------
(* Properties of the guardrail checks of one approve() call *)

\* the eight checks in the order of approve(), each judged on its own
\* against a fresh decision, for proposal i and the ledger approve() reads
GuardrailVerdicts(i) ==
    LET ds1 == update_unrealized_pnl(LedgerRead, positions)
        ds2 == check_daily_loss_budget_ledger(ds1)
        a0 == NewApproval(ds1)
    IN  << check_safe_mode(ds1, a0),
           check_stop_loss(i, a0),
           check_daily_loss_budget(i, ds1, a0),
           check_per_trade_risk(i, ds2, a0),
           check_max_trades(ds2, a0),
           check_strategy_switch(i, ds2, a0, now),
           check_symbol_validity(i, a0),
           check_liquidity(i, a0) >>

\* a returned rejection names every failed check in its flags and carries
\* the reason of the last failed check
RejectionComplete(i, ap) ==
    LET v == GuardrailVerdicts(i)
        failed == {k \in 1..8 : ~v[k].ok}
        last == CHOOSE k \in failed : \A j \in failed : j <= k
    IN  /\ failed # {}
        /\ \A k \in failed : v[k].ap.guardrail_flags \subseteq ap.guardrail_flags
        /\ ap.rejection_reason = v[last].ap.rejection_reason

\* C27: every approve() call runs all eight guardrail checks: it returns a
\* decision, and a rejected decision carries the flag of every failed check
\* and the reason of the last failed check in the order safe mode, stop-loss,
\* daily budget, per-trade risk, max trades, strategy switch, symbol,
\* liquidity.
C27_AllChecksEvaluated ==
    [][ApproveCalled
          => /\ approval'.returned
             /\ ~approval'.approved => RejectionComplete(intent', approval')]_vars


\* the per-trade cap the specification states for a remaining budget b
PerTradeCap(b) ==
    RMin(RDiv(RMul(b, R(PER_TRADE_MAX_LOSS_PERCENT)), R(100)), R(PerTradeAbsoluteCap))

\* C28: an approved decision is only given to a proposal whose expected risk
\* is at most the remaining loss budget and at most the per-trade cap
\* min(remaining budget * percentage / 100, absolute ceiling).
C28_ApprovedRiskWithinLimits ==
    [][(ApproveCalled /\ approval'.returned /\ approval'.approved)
          => /\ RLe(intent'.expected_risk_rupees, ledger'.loss_budget_remaining)
             /\ ledger'.loss_budget_remaining
                   = update_unrealized_pnl(LedgerRead, positions).loss_budget_remaining
             /\ RLe(intent'.expected_risk_rupees,
                    PerTradeCap(ledger'.loss_budget_remaining))]_vars

\* an approved proposal whose risk is positive, with a remaining budget
\* small enough for the percentage to be the binding part of the cap
C28_Witness ==
    /\ approval.returned /\ approval.approved
    /\ RLt(R(0), intent.expected_risk_rupees)
    /\ RLt(PerTradeCap(ledger.loss_budget_remaining), R(PerTradeAbsoluteCap))


\* quantity = approval.adjusted_quantity or intent.quantity, as execute()
\* reads it
QuantityUsed(i, ap) ==
    IF ap.adjusted_quantity # NoneI /\ ap.adjusted_quantity # 0
    THEN ap.adjusted_quantity
    ELSE i.quantity

-----------------------------------------------------------------------------
(* Properties of approve() on the proposals of the evaluator *)

\* C30: approve() returns a decision, approved or rejected with a reason,
\* for every proposal the strategy evaluator hands to it in a cycle, the
\* market orders with a stop-loss and no entry price included.
C30_ApproveAlwaysDecides ==
    [][\A sy \in AllowedSymbols :
          \A i \in EvaluatorIntents(sy), ltp \in LtpValues :
             (InCycle /\ TickSymbolTrade(i, ltp) /\ TickDone)
             => LET r == approve(ledger, positions, i, now)
                IN  /\ ~r.raised
                    /\ r.ap.returned
                    /\ r.ap.approved \/ r.ap.rejection_reason # None]_vars



-----------------------------------------------------------------------------
(* Properties of the execution step of a cycle *)

\* the iteration for proposal i reaches execution_paper.execute(): the
\* decision is approved and needs no human approval
ReachesExecute(i) ==
    LET r == approve(ledger, positions, i, now)
    IN  ~r.raised /\ r.ap.approved /\ ~r.ap.hitl_required

\* C31: after the execution step of a cycle the proposal's status is
\* 'executed' exactly when execute() returned a filled order, and it is
\* 'execution_failed' when execute() returned none or an unfilled order.
C31_StatusFollowsOrder ==
    [][\A sy \in AllowedSymbols :
          \A i \in EvaluatorIntents(sy), ltp \in LtpValues :
             (/\ InCycle /\ TickSymbolTrade(i, ltp) /\ TickSymbolStatus(i, ltp)
              /\ TickDone /\ ReachesExecute(i))
             => /\ (intent_status' = "executed") <=> (result'.status = "FILLED")
                /\ result'.status # "FILLED" => intent_status' = "execution_failed"]_vars


\* the reference price has not crossed the limit of proposal i favorably
LimitNotReached(i, ltp) ==
    /\ i.entry_type = "LIMIT"
    /\ ltp # NoneR
    /\ \/ i.side = "BUY" /\ RLt(i.entry_price, ltp)
       \/ i.side = "SELL" /\ RLt(ltp, i.entry_price)

\* C32: execute() of an approved limit proposal whose reference price has
\* not crossed the limit favorably returns an order with status pending and
\* no fee, and leaves the position book and the ledger's trade count as they
\* were.
C32_PendingLimitOrder ==
    [][\A ltp \in LtpValues :
          (/\ ExecuteStep /\ Execute(intent, approval, ltp)
           /\ approval.approved
           /\ ~is_duplicate(recent_order_hashes, intent, now).dup
           /\ LimitNotReached(intent, ltp))
          => /\ result'.status = "PENDING"
             /\ result'.brokerage = NoneR
             /\ positions' = positions
             /\ ledger'.trades_count = LedgerRead.trades_count]_vars



-----------------------------------------------------------------------------
(* The de-dup check: approve() and execute() of two proposals with different
   hashes, minutes and days apart *)

\* two proposals that differ in their side, and so in their hash
DedupIntents ==
    {MkIntent("momentum_breakout", "MCX", sd, "MARKET", R(100), 1,
              StopFor(sd), TargetFor(sd), 90, R(0)) : sd \in Sides}

\* minutes between two calls
DedupSteps == {4, 7}

InitDedup == Init

NextDedup ==
    \/ \E i \in DedupIntents : ~approval.returned /\ Approve(i) /\ UNCHANGED loop
    \/ \E ltp \in LtpValues :
          /\ approval.returned /\ Len(orders) < MaxOrders
          /\ Execute(intent, approval, ltp) /\ UNCHANGED loop
    \/ \E d \in DedupSteps : AdvanceClock(d) /\ UNCHANGED loop
    \/ NewDay /\ UNCHANGED loop

SpecDedup == InitDedup /\ [][NextDedup]_vars

\* a step in which execute() runs the de-dup check on the stored proposal
DedupChecked == ExecuteStep /\ approval.approved

\* the minutes since the entry of hash h in cache c was recorded
MinutesSince(c, h) == now - c[h]

\* C33: every call of the de-dup check, duplicate or not, leaves the cache
\* without an entry recorded more than 10 minutes earlier.
C33_CachePruned ==
    [][DedupChecked
          => \A h \in DOMAIN recent_order_hashes' :
                MinutesSince(recent_order_hashes', h) * 60 <= DedupPruneSeconds]_vars

\* C34: a proposal is treated as a duplicate only if the same hash was
\* recorded less than 5 minutes earlier, however many days have passed.
C34_DuplicateOnlyWithinWindow ==
    [][(DedupChecked /\ is_duplicate(recent_order_hashes, intent, now).dup)
          => SeenWithinWindow(intent)]_vars



-----------------------------------------------------------------------------
(* Properties of the position book after fills *)

\* the stop-loss of position p is on the losing side of its average price
ProtectiveStop(p) ==
    /\ p.stop_loss_price # NoneR
    /\ p.quantity > 0 => RLt(p.stop_loss_price, p.avg_price)
    /\ p.quantity < 0 => RLt(p.avg_price, p.stop_loss_price)

\* C35: after any sequence of fills every open position has its stop-loss
\* on the losing side of its entry: below the average price of a long
\* position, above the average price of a short position.
C35_StopOnLosingSide ==
    \A s \in get_all_positions(positions) : ProtectiveStop(positions[s])



-----------------------------------------------------------------------------
(* The cycle and the external control side by side: the per-symbol iteration
   of _run_trading_cycle is split at its ledger reads and writes, and
   trigger_safe_mode() of the dashboard process runs between any two *)

\* the loop moves on from the iteration in progress
NextSymbol(ds) ==
    IF Len(sched.todo) = 1 THEN IdleSched
    ELSE [pc |-> "symbols", daily_state |-> ds, todo |-> Tail(sched.todo)]

\* the proposal is saved; approve() reads today's row into its own
\* daily_state
TickApproveRead(i) ==
    /\ sched.pc = "symbols"
    /\ i.symbol = Head(sched.todo)
    /\ ledger' = get_or_create_daily_state(ledger)
    /\ sched' = [pc |-> "approve", daily_state |-> sched.daily_state,
                 todo |-> sched.todo,
                 approve_state |-> get_or_create_daily_state(ledger)]
    /\ intent' = i
    /\ intent_status' = save_trade_intent
    /\ UNCHANGED <<positions, orders, recent_order_hashes, now, approval, result,
                   analysis_vars>>

\* approve() saves the row it read, with the unrealized P&L refreshed, runs
\* the checks and returns the decision, or raises
TickApproveSave ==
    /\ sched.pc = "approve"
    /\ LET r == approve(sched.approve_state, positions, intent, now)
       IN  /\ ledger' = r.ds
           /\ approval' = r.ap
           /\ sched' = IF r.raised THEN NextSymbol(sched.daily_state)
                       ELSE [pc |-> "decided", daily_state |-> sched.daily_state,
                             todo |-> sched.todo]
    /\ UNCHANGED <<positions, orders, recent_order_hashes, now, intent,
                   intent_status, analysis_vars, result>>

\* what the cycle does with the decision: the rejection, the HITL
\* bookkeeping with the save of the local daily_state, or execute()
TickBookkeeping(ltp) ==
    /\ sched.pc = "decided"
    /\ Len(orders) < MaxOrders
    /\ IF ~approval.approved
       THEN /\ intent_status' = "rejected"
            /\ sched' = NextSymbol(sched.daily_state)
            /\ UNCHANGED <<ledger, positions, orders, recent_order_hashes, result>>
       ELSE IF approval.hitl_required
       THEN LET ds == [sched.daily_state EXCEPT !.hitl_approvals_pending = @ + 1]
            IN  /\ sched.daily_state.hitl_approvals_pending < MaxPending
                /\ intent_status' = "pending_hitl"
                /\ ledger' = ds
                /\ sched' = NextSymbol(ds)
                /\ UNCHANGED <<positions, orders, recent_order_hashes, result>>
       ELSE LET e == execute(TheWorld, intent, approval, ltp, now)
            IN  /\ SetWorld(e.w)
                /\ result' = e.result
                /\ intent_status' = status_after_execute(e.result)
                /\ sched' = NextSymbol(sched.daily_state)
    /\ UNCHANGED <<now, intent, approval, analysis_vars>>

InitInterleave == InitSched

NextInterleave ==
    \/ \E ld \in LtpData, ok \in BOOLEAN :
          Fetch(ld, ok) /\ TickBegin(ld, ok) /\ UNCHANGED loop
    \/ \E ld \in LtpData, ok \in BOOLEAN :
          Fetch(ld, ok) /\ TickFlatten(ld, ok) /\ UNCHANGED loop
    \/ TickSymbolNoTrade /\ UNCHANGED loop
    \/ \E sy \in AllowedSymbols :
          \E i \in EvaluatorIntents(sy) : TickApproveRead(i) /\ UNCHANGED loop
    \/ TickApproveSave /\ UNCHANGED loop
    \/ \E ltp \in LtpValues : TickBookkeeping(ltp) /\ UNCHANGED loop
    \/ ~Idle /\ TriggerSafeMode /\ UNCHANGED loop

SpecInterleave == InitInterleave /\ [][NextInterleave]_vars

\* C36: a safe-mode trigger issued while a cycle is in progress is not lost:
\* no step of the cycle in progress takes the safe-mode flag out of the
\* ledger, so the flag is set when the cycle has finished.
C36_TriggerNotLost ==
    [][(~Idle /\ ledger.exists /\ ledger.safe_mode)
          => ledger'.exists /\ ledger'.safe_mode]_vars



-----------------------------------------------------------------------------
(* Properties of the exit-only window *)

\* the clock is in the final segment of the trading day
InExitOnlyWindow ==
    /\ (now % DayMinutes) >= EXIT_ONLY_START
    /\ (now % DayMinutes) <= TRADING_END

\* C37: a cycle inside the exit-only window, with safe mode off, monitors
\* the positions and returns: it builds no snapshot and generates, approves
\* and executes no proposal.
C37_ExitOnlyMonitorsOnly ==
    [][\A ld \in LtpData, ok \in BOOLEAN :
          (/\ InCycle /\ Fetch(ld, ok) /\ TickBegin(ld, ok) /\ TickDone
           /\ InExitOnlyWindow /\ ~LedgerRead.safe_mode)
          => /\ positions' = monitor_positions(TheWorld, ld, ok).positions
             /\ orders' = monitor_positions(TheWorld, ld, ok).orders
             /\ sched' = IdleSched
             /\ loop'.pc = "sleep"
             /\ UNCHANGED <<intent, intent_status, approval, result,
                            recent_order_hashes>>]_vars

\* an exit-only cycle has returned after its monitoring closed the position
\* that a cycle of the trading window had opened
C37_Witness ==
    /\ InExitOnlyWindow
    /\ loop.pc = "sleep"
    /\ sched = IdleSched
    /\ ledger.exists /\ ~ledger.safe_mode
    /\ Len(orders) = 2
    /\ get_all_positions(positions) = {}

-----------------------------------------------------------------------------
(* StrategyBrainAgent (app/agents/strategy_brain.py) *)

\* StrategyBrainAgent.__init__: the threshold, in hundredths like every
\* confidence of the model
min_confidence_threshold == 60

\* strategy_evaluators: the registered strategies, in the order of the dict
strategy_evaluators ==
    <<"momentum_breakout", "mean_reversion", "volatility_expansion">>

\* what an evaluator can return: max(0.0, min(confidence, 1.0)), here below,
\* at and above the threshold
ScoreValues == {0, 59, 60, 85}

\* the list `scores` after the loop over strategy_evaluators: one
\* StrategyScore per registered strategy, in registration order
ScoreLists ==
    {[k \in 1..Len(strategy_evaluators) |->
         [strategy |-> strategy_evaluators[k], confidence |-> c[k]]] :
     c \in [1..Len(strategy_evaluators) -> ScoreValues]}

\* Bollinger bands of a snapshot: absent, ltp above the upper band, ltp below
\* the lower band, ltp inside the bands, and bands without a middle
SnapshotBands ==
    {[bb_upper |-> NoneR, bb_middle |-> NoneR, bb_lower |-> NoneR],
     [bb_upper |-> R(99), bb_middle |-> R(95), bb_lower |-> R(90)],
     [bb_upper |-> R(110), bb_middle |-> R(105), bb_lower |-> R(101)],
     [bb_upper |-> R(110), bb_middle |-> R(100), bb_lower |-> R(90)],
     [bb_upper |-> R(99), bb_middle |-> NoneR, bb_lower |-> R(90)]}

\* MarketSnapshot: the fields evaluate and _generate_trade_intent read
Snapshots ==
    {[symbol |-> "MCX", ltp |-> R(100), vwap |-> v,
      bb_upper |-> b.bb_upper, bb_middle |-> b.bb_middle,
      bb_lower |-> b.bb_lower] :
     v \in {R(99), R(101)}, b \in SnapshotBands}

RECURSIVE max_from(_, _, _)
\* the loop of Python's max(iterable, key=...): the running maximum is
\* replaced only by an item whose key is strictly greater
max_from(scores, k, best) ==
    IF k > Len(scores) THEN best
    ELSE max_from(scores, k + 1,
                  IF scores[k].confidence > best.confidence
                  THEN scores[k] ELSE best)

\* a maximum that keeps the last of the items with the greatest key
max_by_confidence_last(scores) ==
    LET k == CHOOSE i \in 1..Len(scores) :
                 /\ \A j \in 1..Len(scores) :
                        scores[j].confidence <= scores[i].confidence
                 /\ \A j \in (i + 1)..Len(scores) :
                        scores[j].confidence < scores[i].confidence
    IN  scores[k]

\* max(scores, key=lambda s: s.confidence)
max_by_confidence(scores) == max_from(scores, 2, scores[1])

\* _generate_trade_intent(snapshot, score)
generate_trade_intent(snapshot, score) ==
    LET ltp == snapshot.ltp
        strategy == score.strategy
        t == IF strategy = "momentum_breakout"
             THEN IF RLt(snapshot.vwap, ltp)
                  THEN [side |-> "BUY", entry_price |-> NoneR,
                        stop_loss_price |-> RMul(snapshot.vwap, Rat(995, 1000)),
                        target_price |-> RMul(ltp, Rat(1015, 1000))]
                  ELSE [side |-> "SELL", entry_price |-> NoneR,
                        stop_loss_price |-> RMul(snapshot.vwap, Rat(1005, 1000)),
                        target_price |-> RMul(ltp, Rat(985, 1000))]
             ELSE IF strategy = "mean_reversion"
             THEN IF RLt(snapshot.vwap, ltp)
                  THEN [side |-> "SELL", entry_price |-> ltp,
                        stop_loss_price |-> RMul(ltp, Rat(101, 100)),
                        target_price |-> snapshot.vwap]
                  ELSE [side |-> "BUY", entry_price |-> ltp,
                        stop_loss_price |-> RMul(ltp, Rat(99, 100)),
                        target_price |-> snapshot.vwap]
             ELSE IF Truthy(snapshot.bb_upper) /\ RLt(snapshot.bb_upper, ltp)
             THEN [side |-> "BUY", entry_price |-> NoneR,
                   stop_loss_price |-> IF Truthy(snapshot.bb_middle)
                                       THEN snapshot.bb_middle
                                       ELSE RMul(ltp, Rat(99, 100)),
                   target_price |-> RMul(ltp, Rat(102, 100))]
             ELSE IF Truthy(snapshot.bb_lower) /\ RLt(ltp, snapshot.bb_lower)
             THEN [side |-> "SELL", entry_price |-> NoneR,
                   stop_loss_price |-> IF Truthy(snapshot.bb_middle)
                                       THEN snapshot.bb_middle
                                       ELSE RMul(ltp, Rat(101, 100)),
                   target_price |-> RMul(ltp, Rat(98, 100))]
             ELSE [side |-> "BUY", entry_price |-> NoneR,
                   stop_loss_price |-> RMul(ltp, Rat(99, 100)),
                   target_price |-> RMul(ltp, Rat(102, 100))]
        quantity == 1
        expected_risk == RMul(RAbs(RSub(ltp, t.stop_loss_price)), R(quantity))
    IN  MkIntent(strategy, snapshot.symbol, t.side,
                 IF t.entry_price = NoneR THEN "MARKET" ELSE "LIMIT",
                 t.entry_price, quantity, t.stop_loss_price, t.target_price,
                 score.confidence, expected_risk)

\* evaluate(snapshot), after the evaluators have filled `scores`: the
\* TradeIntent returned, NoIntent for the None of NO_TRADE
evaluate(snapshot, scores) ==
    LET best_score == max_by_confidence(scores)
    IN  IF best_score.confidence < min_confidence_threshold
        THEN NoIntent
        ELSE generate_trade_intent(snapshot, best_score)

\* the loop over strategy_evaluators: each evaluator returns its score
RunEvaluators ==
    /\ evaluation.exists /\ evaluation.pc = "called"
    /\ \E scores \in ScoreLists :
          evaluation' = [evaluation EXCEPT !.pc = "scored", !.scores = scores]
    /\ UNCHANGED <<ledger, positions, orders, recent_order_hashes, now, intent,
                   intent_status, stock_data, ensemble, approval, result,
                   sched, loop>>

\* the selection, the threshold test and the return of evaluate
SelectBest ==
    /\ evaluation.exists /\ evaluation.pc = "scored"
    /\ intent' = evaluate(evaluation.snapshot, evaluation.scores)
    /\ evaluation' = [evaluation EXCEPT !.pc = "returned"]
    /\ UNCHANGED <<ledger, positions, orders, recent_order_hashes, now,
                   intent_status, stock_data, ensemble, approval, result,
                   sched, loop>>

InitEvaluate ==
    /\ ledger = NoLedger
    /\ positions = EmptyBook
    /\ orders = <<>>
    /\ recent_order_hashes = <<>>
    /\ now = StartOfSession
    /\ intent = NoIntent
    /\ intent_status = None
    \* evaluate has been called with a snapshot
    /\ evaluation \in {[exists |-> TRUE, pc |-> "called", snapshot |-> s,
                         scores |-> <<>>] : s \in Snapshots}
    /\ stock_data = NoStockData
    /\ ensemble = NoEnsemble
    /\ approval = NoDecision
    /\ result = NoOrder
    /\ sched = IdleSched
    /\ loop = NotStarted

NextEvaluate ==
    \/ RunEvaluators
    \/ SelectBest

SpecEvaluate == InitEvaluate /\ [][NextEvaluate]_vars

\* the greatest confidence among the scores of an evaluation
HighestConfidence(scores) ==
    CHOOSE c \in {scores[k].confidence : k \in 1..Len(scores)} :
        \A k \in 1..Len(scores) : scores[k].confidence <= c

\* the first registered strategy whose score has the greatest confidence
FirstRegisteredBest(scores) ==
    LET k == CHOOSE i \in 1..Len(scores) :
                 /\ scores[i].confidence = HighestConfidence(scores)
                 /\ \A j \in 1..(i - 1) :
                        scores[j].confidence < HighestConfidence(scores)
    IN  strategy_evaluators[k]

\* C38: evaluate selects the strategy with the highest confidence among the
\* registered strategies, the first-registered one winning exact ties; it
\* returns no trade when that confidence is below the threshold 0.6 and
\* otherwise a proposal of the selected strategy carrying that confidence.
C38_EvaluateSelectsBest ==
    (evaluation.exists /\ evaluation.pc = "returned") =>
        LET top == HighestConfidence(evaluation.scores)
        IN  IF top < min_confidence_threshold
            THEN intent = NoIntent
            ELSE /\ intent.exists
                 /\ intent.strategy_id = FirstRegisteredBest(evaluation.scores)
                 /\ intent.confidence_score = top
                 /\ intent.symbol = evaluation.snapshot.symbol

\* evaluate has returned a proposal of the first-registered strategy although
\* a later-registered strategy scored the same, highest, confidence
C38_Witness ==
    /\ evaluation.exists /\ evaluation.pc = "returned"
    /\ evaluation.scores[1].confidence = evaluation.scores[3].confidence
    /\ evaluation.scores[2].confidence < evaluation.scores[1].confidence
    /\ intent.exists
    /\ intent.strategy_id = "momentum_breakout"
    /\ intent.confidence_score = min_confidence_threshold

-----------------------------------------------------------------------------
(* StrategyEngine (app/core/strategy_engine.py): the ensemble analysis *)

\* MULTI_TF_CONFIG["gates"]
require_bias_alignment == TRUE
require_trend_alignment == TRUE
min_confluence_strategies == 3

MAX_STOP_LOSS_PCT == Rat(10, 100)
SLIPPAGE_BUFFER_PCT == Rat(1, 1000)

\* stock_data.get(key, default): NoneR stands for a key the dict does not have
Get(value, default) == IF value = NoneR THEN default ELSE value

\* datetime.datetime.now().hour and .minute
hour(t) == (t % DayMinutes) \div 60
minute(t) == t % 60

\* TradeSignal(symbol, "WAIT", 0, 0, 0, 0, name, ...)
WaitSignal(name) ==
    [raised |-> FALSE, strategy_name |-> name, signal_type |-> "WAIT",
     entry_price |-> R(0), stop_loss |-> R(0), target |-> R(0),
     confidence |-> 0]

\* TradeSignal(symbol, "BUY", entry, stop, target, 1, name, ..., confidence)
BuySignal(name, entry, stop, target, conf) ==
    [raised |-> FALSE, strategy_name |-> name, signal_type |-> "BUY",
     entry_price |-> entry, stop_loss |-> stop, target |-> target,
     confidence |-> conf]

\* analyze() left by an exception (ZeroDivisionError)
SignalRaised == [raised |-> TRUE]

\* apply_risk_guardrails(signal, ltp); the division by an entry price of 0
\* raises ZeroDivisionError
apply_risk_guardrails(signal, ltp) ==
    IF signal.signal_type # "BUY" THEN signal
    ELSE IF RIsZero(signal.entry_price) THEN SignalRaised
    ELSE
        LET sl_dist_pct == RDiv(RSub(signal.entry_price, signal.stop_loss),
                                signal.entry_price)
            slippage == RMul(ltp, SLIPPAGE_BUFFER_PCT)
            adj_entry == RAdd(signal.entry_price, slippage)
            adj_target == RSub(signal.target, slippage)
            potential_profit == RSub(adj_target, adj_entry)
            potential_loss == RSub(adj_entry, signal.stop_loss)
            rr_ratio == IF RLt(R(0), potential_loss)
                        THEN RDiv(potential_profit, potential_loss)
                        ELSE R(0)
        IN  IF RLt(MAX_STOP_LOSS_PCT, sl_dist_pct)
            THEN [signal EXCEPT !.signal_type = "WAIT", !.confidence = 0]
            ELSE IF RLt(rr_ratio, R(1))
            THEN [signal EXCEPT !.signal_type = "WAIT", !.confidence = 0]
            ELSE signal

\* MomentumStrategy.analyze
MomentumStrategy(sd, t) ==
    LET ltp == Get(sd.ltp, R(0))
        vwap == Get(sd.vwap, R(0))
        vol_ratio == Get(sd.volume_ratio, Rat(18, 10))
    IN  IF RLt(vwap, ltp) /\ RLt(Rat(12, 10), vol_ratio)
        THEN apply_risk_guardrails(
                 BuySignal("Momentum", ltp, RMul(ltp, Rat(98, 100)),
                           RMul(ltp, Rat(104, 100)), 85), ltp)
        ELSE WaitSignal("Momentum")

\* ScalpingStrategy.analyze
ScalpingStrategy(sd, t) ==
    LET ltp == Get(sd.ltp, R(0))
        ema9 == Get(sd.ema_9, ltp)
        ema21 == Get(sd.ema_21, RMul(ltp, Rat(99, 100)))
    IN  IF RLt(ema21, ema9)
        THEN apply_risk_guardrails(
                 BuySignal("Scalping", ltp, RMul(ltp, Rat(995, 1000)),
                           RMul(ltp, Rat(101, 100)), 90), ltp)
        ELSE WaitSignal("Scalping")

\* VWAPPullbackStrategy.analyze; dist divides by vwap before any test
VWAPPullbackStrategy(sd, t) ==
    LET ltp == Get(sd.ltp, R(0))
        vwap == Get(sd.vwap, R(0))
    IN  IF RIsZero(vwap) THEN SignalRaised
        ELSE
            LET dist == RDiv(RSub(ltp, vwap), vwap)
            IN  IF RLt(R(0), dist) /\ RLt(dist, Rat(5, 1000))
                THEN apply_risk_guardrails(
                         BuySignal("VWAPPullback", ltp, RMul(vwap, Rat(99, 100)),
                                   RMul(ltp, Rat(103, 100)), 80), ltp)
                ELSE WaitSignal("VWAPPullback")

\* BreakoutStrategy.analyze
BreakoutStrategy(sd, t) ==
    LET ltp == Get(sd.ltp, R(0))
        res_level == Get(sd.resistance_level, RMul(ltp, Rat(99, 100)))
    IN  IF RLt(res_level, ltp)
        THEN apply_risk_guardrails(
                 BuySignal("Breakout", ltp, RMul(res_level, Rat(98, 100)),
                           RMul(ltp, Rat(105, 100)), 75), ltp)
        ELSE WaitSignal("Breakout")

\* MeanReversionStrategy.analyze
MeanReversionStrategy(sd, t) ==
    LET ltp == Get(sd.ltp, R(0))
        bb_lower == Get(sd.bb_lower, RMul(ltp, Rat(101, 100)))
    IN  IF RLt(ltp, bb_lower)
        THEN apply_risk_guardrails(
                 BuySignal("MeanReversion", ltp, RMul(ltp, Rat(98, 100)),
                           RMul(ltp, Rat(103, 100)), 70), ltp)
        ELSE WaitSignal("MeanReversion")

\* RSIReversalStrategy.analyze
RSIReversalStrategy(sd, t) ==
    LET ltp == Get(sd.ltp, R(0))
        rsi == Get(sd.rsi, R(45))
    IN  IF RLt(rsi, R(35))
        THEN apply_risk_guardrails(
                 BuySignal("RSIReversal", ltp, RMul(ltp, Rat(98, 100)),
                           RMul(ltp, Rat(104, 100)), 65), ltp)
        ELSE WaitSignal("RSIReversal")

\* MACrossoverTrendStrategy.analyze
MACrossoverTrendStrategy(sd, t) ==
    LET ltp == Get(sd.ltp, R(0))
        ema_f == Get(sd.ema_9, R(100))
        ema_s == Get(sd.ema_21, R(99))
    IN  IF RLt(ema_s, ema_f)
        THEN apply_risk_guardrails(
                 BuySignal("MACrossoverTrend", ltp, RMul(ltp, Rat(96, 100)),
                           RMul(ltp, Rat(110, 100)), 88), ltp)
        ELSE WaitSignal("MACrossoverTrend")

\* InstitutionalFlowStrategy.analyze at clock time t
InstitutionalFlowStrategy(sd, t) ==
    LET ltp == Get(sd.ltp, R(0))
        vwap == Get(sd.vwap, RMul(ltp, Rat(99, 100)))
        vol_ratio == Get(sd.volume_ratio, R(1))
        ema_9 == Get(sd.ema_9, RMul(ltp, Rat(98, 100)))
        ema_21 == Get(sd.ema_21, RMul(ltp, Rat(97, 100)))
        in_inst_window ==
            \/ (hour(t) = 10 /\ minute(t) >= 30) \/ (hour(t) = 11 /\ minute(t) <= 30)
            \/ (hour(t) = 13 /\ minute(t) >= 30) \/ (hour(t) = 14 /\ minute(t) <= 30)
        price_above_vwap == RLt(vwap, ltp)
        volume_surge == RLt(Rat(15, 10), vol_ratio)
        ema_alignment == RLt(ema_9, ltp) /\ RLt(ema_21, ema_9)
    IN  IF in_inst_window /\ price_above_vwap /\ volume_surge /\ ema_alignment
        THEN apply_risk_guardrails(
                 BuySignal("InstitutionalFlow", ltp, RMul(ltp, Rat(965, 1000)),
                           RMul(ltp, Rat(108, 100)), 90), ltp)
        ELSE WaitSignal("InstitutionalFlow")

\* StopHuntProtectionStrategy.analyze at clock time t
StopHuntProtectionStrategy(sd, t) ==
    LET ltp == Get(sd.ltp, R(0))
        vwap == Get(sd.vwap, RMul(ltp, Rat(99, 100)))
        vol_ratio == Get(sd.volume_ratio, R(1))
        resistance == Get(sd.opening_range_high, RMul(ltp, Rat(98, 100)))
        in_manipulation_zone == hour(t) = 9 /\ minute(t) < 30
        in_trap_zone == hour(t) >= 14 /\ minute(t) >= 30
        breakout_confirmed == RLt(RMul(resistance, Rat(1002, 1000)), ltp)
        volume_sustained == RLt(Rat(18, 10), vol_ratio)
        price_above_vwap == RLt(vwap, ltp)
    IN  IF in_manipulation_zone THEN WaitSignal("StopHuntProtection")
        ELSE IF in_trap_zone THEN WaitSignal("StopHuntProtection")
        ELSE IF breakout_confirmed /\ volume_sustained /\ price_above_vwap
        THEN apply_risk_guardrails(
                 BuySignal("StopHuntProtection", ltp, RMul(ltp, Rat(96, 100)),
                           RMul(ltp, Rat(106, 100)), 85), ltp)
        ELSE WaitSignal("StopHuntProtection")

\* StrategyEngine.__init__: self.strategies, in order
strategies ==
    <<"Momentum", "Scalping", "VWAPPullback", "Breakout", "MeanReversion",
      "RSIReversal", "MACrossoverTrend", "InstitutionalFlow",
      "StopHuntProtection">>

\* strat.valid_regimes
valid_regimes(name) ==
    CASE name = "Momentum" -> {"TRENDING", "VOLATILE"}
      [] name = "Scalping" -> {"TRENDING", "RANGING", "VOLATILE"}
      [] name = "VWAPPullback" -> {"TRENDING"}
      [] name = "Breakout" -> {"TRENDING", "VOLATILE"}
      [] name = "MeanReversion" -> {"RANGING"}
      [] name = "RSIReversal" -> {"RANGING", "VOLATILE"}
      [] name = "MACrossoverTrend" -> {"TRENDING"}
      [] name = "InstitutionalFlow" -> {"TRENDING", "VOLATILE"}
      [] name = "StopHuntProtection" -> {"TRENDING", "VOLATILE"}

\* strat.analyze(stock_data)
analyze(name, sd, t) ==
    CASE name = "Momentum" -> MomentumStrategy(sd, t)
      [] name = "Scalping" -> ScalpingStrategy(sd, t)
      [] name = "VWAPPullback" -> VWAPPullbackStrategy(sd, t)
      [] name = "Breakout" -> BreakoutStrategy(sd, t)
      [] name = "MeanReversion" -> MeanReversionStrategy(sd, t)
      [] name = "RSIReversal" -> RSIReversalStrategy(sd, t)
      [] name = "MACrossoverTrend" -> MACrossoverTrendStrategy(sd, t)
      [] name = "InstitutionalFlow" -> InstitutionalFlowStrategy(sd, t)
      [] name = "StopHuntProtection" -> StopHuntProtectionStrategy(sd, t)

\* analyze_1h_bias(stock_data)
analyze_1h_bias(sd) ==
    LET ema_50 == Get(sd.dma_50, R(100))
        ema_200 == Get(sd.dma_200, R(90))
        ltp == Get(sd.ltp, R(0))
    IN  IF RLt(ema_50, ltp) /\ RLt(ema_200, ema_50) THEN "BULLISH"
        ELSE IF RLt(ltp, ema_50) /\ RLt(ema_50, ema_200) THEN "BEARISH"
        ELSE "SIDEWAYS"

\* analyze_15m_trend(stock_data, bias_1h)
analyze_15m_trend(sd, bias_1h) ==
    LET ltp == Get(sd.ltp, R(0))
        vwap == Get(sd.vwap, R(0))
    IN  IF RLt(RMul(vwap, Rat(1002, 1000)), ltp) THEN "BULLISH"
        ELSE IF RLt(ltp, RMul(vwap, Rat(998, 1000))) THEN "BEARISH"
        ELSE "SIDEWAYS"

\* the regime the loop of run_ensemble_analysis derives for every strategy
regime_of(bias_1h, trend_15m) ==
    IF bias_1h = "SIDEWAYS" THEN "RANGING"
    ELSE IF trend_15m # "SIDEWAYS" THEN "TRENDING" ELSE "RANGING"

\* run_ensemble_analysis left by the exception of a strategy
EnsembleRaised == [exists |-> TRUE, raised |-> TRUE]

\* run_ensemble_analysis(stock_data) at clock time t: the EnsembleDecision
run_ensemble_analysis(sd, t) ==
    LET bias_1h == analyze_1h_bias(sd)
        trend_15m == analyze_15m_trend(sd, bias_1h)
        gate_bias_ok == ~(require_bias_alignment /\ bias_1h = "BEARISH")
        gate_trend_ok == ~(require_trend_alignment /\ trend_15m = "BEARISH")
        forced_wait == ~gate_bias_ok \/ ~gate_trend_ok
        regime == regime_of(bias_1h, trend_15m)
        eligible == {k \in 1..Len(strategies) :
                        regime \in valid_regimes(strategies[k])}
        sig == [k \in eligible |-> analyze(strategies[k], sd, t)]
        final_action(k) == IF forced_wait /\ sig[k].signal_type = "BUY"
                           THEN "WAIT" ELSE sig[k].signal_type
        agreeing == {k \in eligible : final_action(k) = "BUY"}
        agreeing_count == Cardinality(agreeing)
        verdict == IF forced_wait THEN "WAIT"
                   ELSE IF agreeing_count >= min_confluence_strategies
                   THEN "BUY" ELSE "WAIT"
    IN  IF \E k \in eligible : sig[k].raised THEN EnsembleRaised
        ELSE [exists |-> TRUE, raised |-> FALSE,
              market_bias_1h |-> bias_1h, trend_15m |-> trend_15m,
              final_verdict |-> verdict,
              agreeing_strategies |-> agreeing_count,
              active_strategies_count |-> Cardinality(eligible),
              strategy_breakdown |->
                  [k \in eligible |-> [name |-> strategies[k],
                                       action |-> final_action(k)]]]


\* the value of a key of stock_data, NoneR when the dict lacks the key
StockKey(values) == {NoneR} \cup {Rat(v[1], v[2]) : v \in values}

\* moving averages of a stock_data dict: absent, bullish, bearish and mixed
\* against an ltp of 100
MovingAverages ==
    {[dma_50 |-> NoneR, dma_200 |-> NoneR],
     [dma_50 |-> R(95), dma_200 |-> R(90)],
     [dma_50 |-> R(105), dma_200 |-> R(110)],
     [dma_50 |-> R(105), dma_200 |-> R(90)]}

\* fast and slow EMA of a stock_data dict: absent, crossed up, crossed down
EmaPairs ==
    {[ema_9 |-> NoneR, ema_21 |-> NoneR],
     [ema_9 |-> R(99), ema_21 |-> R(98)],
     [ema_9 |-> R(98), ema_21 |-> R(99)]}

\* the stock_data dicts handed to run_ensemble_analysis
StockData ==
    {[exists |-> TRUE, ltp |-> l, vwap |-> v,
      dma_50 |-> ma.dma_50, dma_200 |-> ma.dma_200,
      volume_ratio |-> vr, ema_9 |-> e.ema_9, ema_21 |-> e.ema_21,
      resistance_level |-> rl, bb_lower |-> bl, rsi |-> rs,
      opening_range_high |-> orh] :
     l \in StockKey({<<100, 1>>}),
     v \in StockKey({<<99, 1>>, <<997, 10>>, <<100, 1>>, <<101, 1>>}),
     ma \in MovingAverages,
     vr \in StockKey({<<1, 1>>, <<2, 1>>}),
     e \in EmaPairs,
     rl \in StockKey({<<50, 1>>, <<101, 1>>}),
     bl \in StockKey({<<95, 1>>}),
     rs \in StockKey({<<30, 1>>}),
     orh \in StockKey({<<101, 1>>})}

\* clock times of a call: 09:20, 10:40, 12:00 and 14:50
EnsembleTimes == {560, 640, 720, 890}

\* a call of run_ensemble_analysis(stock_data)
RunEnsembleAnalysis ==
    /\ stock_data.exists /\ ~ensemble.exists
    /\ ensemble' = run_ensemble_analysis(stock_data, now)
    /\ UNCHANGED <<ledger, positions, orders, recent_order_hashes, now, intent,
                   intent_status, evaluation, stock_data, approval, result,
                   sched, loop>>

InitEnsemble ==
    /\ ledger = NoLedger
    /\ positions = EmptyBook
    /\ orders = <<>>
    /\ recent_order_hashes = <<>>
    /\ now \in EnsembleTimes
    /\ intent = NoIntent
    /\ intent_status = None
    /\ evaluation = NoEvaluation
    /\ stock_data \in StockData
    /\ ensemble = NoEnsemble
    /\ approval = NoDecision
    /\ result = NoOrder
    /\ sched = IdleSched
    /\ loop = NotStarted

NextEnsemble == RunEnsembleAnalysis

SpecEnsemble == InitEnsemble /\ [][NextEnsemble]_vars

\* the regime-eligible strategies whose own signal for stock_data is BUY
BuyVoters ==
    LET bias == analyze_1h_bias(stock_data)
        trend == analyze_15m_trend(stock_data, bias)
    IN  {k \in 1..Len(strategies) :
            /\ regime_of(bias, trend) \in valid_regimes(strategies[k])
            /\ LET s == analyze(strategies[k], stock_data, now)
               IN  ~s.raised /\ s.signal_type = "BUY"}

\* neither the 1h bias nor the 15m trend of stock_data is bearish
NotBearish ==
    LET bias == analyze_1h_bias(stock_data)
    IN  /\ bias # "BEARISH"
        /\ analyze_15m_trend(stock_data, bias) # "BEARISH"

\* C39: run_ensemble_analysis returns verdict BUY if and only if neither the
\* higher-timeframe bias nor the medium-timeframe trend is bearish and at
\* least min_confluence_strategies (3) regime-eligible strategies vote BUY;
\* in every other case, in particular whenever bias or trend is bearish, the
\* verdict is WAIT.
C39_VerdictBuyIffConfluence ==
    ensemble.exists =>
        /\ ~ensemble.raised
        /\ ensemble.final_verdict =
               IF NotBearish /\ Cardinality(BuyVoters) >= min_confluence_strategies
               THEN "BUY" ELSE "WAIT"

====
